---- MODULE Spec2Model ----
(***************************************************************************)
(* Uni-post: the storage / consistency layer of the server (the second     *)
(* server file of src/unnamed/part_002, lines 1052-2319).  Documents are   *)
(* JSON blobs in a GitHub repository; every read returns (content, sha)    *)
(* and every update carries the sha the writer believes is current.        *)
(*                                                                         *)
(* A request handler is an async function: between two awaited store calls *)
(* any other handler may run.  Each action below is one awaited store call *)
(* of one handler together with the synchronous code that follows it.      *)
(***************************************************************************)
EXTENDS Integers, Sequences, FiniteSets, TLC

\* ---------------------------------------------------------------- bounds
\* Requests started in one behaviour of the post specification.
MaxRequests == 3
\* Comments created in one behaviour of the nesting-depth specification.
MaxChain == 13
\* Requests started in one behaviour of the community specification.
MaxCommunityRequests == 2
\* Requests started in one behaviour of the index specification.
MaxIndexRequests == 3
\* The last day of the clock.
MaxDay == 30
\* Days the clock advances in one step.
TickDays == 10
\* Requests and retention runs started in one behaviour of the retention
\* specification.
MaxRetentionRequests == 3
\* Requests started in one behaviour of the client specification.
MaxClientRequests == 3
\* Requests started in one behaviour of the resolver specification.
MaxResolveRequests == 2
\* Post ids a request may name (uuidv4 never repeats one).
MaxPosts == 2
\* The creation requests made (register, create community, create post).
MaxCreateRequests == 3
\* The requests made to the handlers that write a community document.
MaxMemberRequests == 3
\* The cleanup job: the posts stored before it runs and the runs made.
MaxBatchPosts == 7
MaxBatchRuns == 2
\* Runs of the cleanup job and joins started beside them.
MaxSweepRequests == 3
\* Feed reads, config updates and joins started in one behaviour.
MaxTriggerRequests == 3
\* Deletions by users, votes and comments started in one behaviour.
MaxModerateRequests == 2
\* Community deletions, listings, reads and joins started in one behaviour.
MaxDropRequests == 3

\* ------------------------------------------------------ program constants
MAX_NESTING_DEPTH == 10
DefaultRetentionDays == 20
CleanupBatch == 5

Users == {"alice", "bob"}
Communities == {"gaming"}
\* Two request handlers in flight at once.
Procs == {"w1", "w2"}
\* vote: 1 (upvote), -1 (downvote), 0 (remove vote); 2 stands for any other
\* value a client may send (the handler only rejects undefined).
VoteValues == {-1, 0, 1, 2}

VARIABLES
    store,   \* the repository: path -> blob
    proc,    \* the request handlers: position and request-scoped values
    now,     \* the clock, in days
    uuid,    \* uuidv4(): the next fresh post id and comment id
    hist     \* history of the run, read only by the properties

vars == <<store, proc, now, uuid, hist>>

\* ------------------------------------------------------------------ paths
IndexPath == <<"index", "index">>
ConfigPath == <<"config", "config">>
UserPath(username) == <<"users", username>>
CommunityPath(name) == <<"communities", name>>
PostPath(postId) == <<"posts", postId>>

PostIds == 1..MaxPosts

Paths ==
    {IndexPath, ConfigPath}
        \cup {UserPath(u) : u \in Users}
        \cup {CommunityPath(c) : c \in Communities}
        \cup {PostPath(i) : i \in PostIds}

\* --------------------------------------------------------------- documents
\* {} : what JSON.parse gives for "{}", and what getFileFromGitHub substitutes
\* for an empty or unparseable payload.
EmptyDoc == [empty |-> TRUE]
EmptyMap == << >>
NullSha == 0
NullId == 0
\* A parentId that is the id of no comment.
MissingId == -1
\* A parentId that is not null and is falsy: 0, "" or false in the request.
FalsyId == -2
\* if (parentId): null (also the default for a request without one) and the
\* falsy values are not truthy.
truthy(parentId) == parentId \notin {NullId, FalsyId}

Put(m, k, v) == [x \in DOMAIN m \cup {k} |-> IF x = k THEN v ELSE m[x]]
Remove(m, k) == [x \in DOMAIN m \ {k} |-> m[x]]
\* The mutant of unshift: the list is left as it was.
unshift_dropped(list, x) == list
unshift(list, x) == <<x>> \o list

InitialIndex(t) ==
    [lastUpdated |-> t, communities |-> EmptyMap, users |-> EmptyMap, posts |-> EmptyMap]

userData(username, t) ==
    [username |-> username, createdAt |-> t, posts |-> << >>, comments |-> << >>,
     communities |-> << >>, avatarUrl |-> ""]

\* The mutant of userRef: every entry names the file of alice.
userRef_shared(username, t) ==
    [file |-> UserPath("alice"), createdAt |-> t, avatarUrl |-> ""]

userRef(username, t) ==
    [file |-> UserPath(username), createdAt |-> t, avatarUrl |-> ""]

communityData(name, creator, t) ==
    [name |-> name, description |-> "", creator |-> creator, createdAt |-> t,
     members |-> <<creator>>, moderators |-> <<creator>>, memberCount |-> 1,
     posts |-> << >>, iconUrl |-> "", bannerUrl |-> ""]

communityRef(name, t) ==
    [file |-> CommunityPath(name), createdAt |-> t, memberCount |-> 1, iconUrl |-> ""]

\* The mutant of postData: the post starts without its author's vote.
postData_unvoted(postId, author, community, t) ==
    [id |-> postId, title |-> "title", content |-> "content", author |-> author,
     community |-> community, createdAt |-> t,
     upvotes |-> 0, downvotes |-> 0, score |-> 0,
     comments |-> << >>, commentCount |-> 0, voters |-> EmptyMap]

postData(postId, author, community, t) ==
    [id |-> postId, title |-> "title", content |-> "content", author |-> author,
     community |-> community, createdAt |-> t,
     upvotes |-> 1, downvotes |-> 0, score |-> 1,
     comments |-> << >>, commentCount |-> 0, voters |-> Put(EmptyMap, author, 1)]

\* The mutant of postRef: the index names a file kept under another key.
postRef_otherFile(postId, author, community, t) ==
    [file |-> <<"posts", -postId>>, community |-> community, author |-> author,
     createdAt |-> t]

postRef(postId, author, community, t) ==
    [file |-> PostPath(postId), community |-> community, author |-> author, createdAt |-> t]

newComment(commentId, author, parentId, t) ==
    [id |-> commentId, author |-> author, parentId |-> parentId, createdAt |-> t,
     upvotes |-> 1, downvotes |-> 0, score |-> 1, replies |-> << >>]

\* ------------------------------------------------------------------ store
AbsentBlob == [present |-> FALSE, kind |-> "none", doc |-> EmptyDoc, sha |-> NullSha]
JsonBlob(doc, sha) == [present |-> TRUE, kind |-> "json", doc |-> doc, sha |-> sha]

Null == [found |-> FALSE, content |-> EmptyDoc, sha |-> NullSha]

\* What is stored at a path, as an observer of the repository sees it.
BlobKind(st, path) ==
    IF path \notin DOMAIN st \/ ~st[path].present THEN "missing" ELSE st[path].kind

\* The mutant of getFileFromGitHub: an empty or unparseable payload is answered
\* like a missing file.
getFileFromGitHub_null(st, path) ==
    LET b == IF path \in DOMAIN st THEN st[path] ELSE AbsentBlob IN
    IF ~b.present \/ b.kind # "json" THEN Null
    ELSE [found |-> TRUE, content |-> b.doc, sha |-> b.sha]

\* 404 -> null; an empty or unparseable payload -> {} with the blob's sha.
getFileFromGitHub(st, path) ==
    LET b == IF path \in DOMAIN st THEN st[path] ELSE AbsentBlob IN
    IF ~b.present THEN Null
    ELSE IF b.kind # "json" THEN [found |-> TRUE, content |-> EmptyDoc, sha |-> b.sha]
    ELSE [found |-> TRUE, content |-> b.doc, sha |-> b.sha]

\* The mutant of directHit: any stored file is a hit.
directHit_anyFile(result) == result.found

\* result && result.content && Object.keys(result.content).length > 0
directHit(result) == result.found /\ result.content # EmptyDoc

\* The mutant of saveFileToGitHub: a file is replaced under any sha at all.
saveFileToGitHub_anySha(st, path, data, existingSha) ==
    LET b == st[path]
        accepted == IF b.present THEN existingSha # NullSha ELSE existingSha = NullSha
    IN  IF accepted
        THEN [ok |-> TRUE, store |-> [st EXCEPT ![path] = JsonBlob(data, b.sha + 1)]]
        ELSE [ok |-> FALSE, store |-> st]

\* params.sha is set only when existingSha is truthy; the store creates a
\* missing file when no sha is sent, replaces a file when the sha sent is the
\* file's current one, and rejects the request otherwise.
\* The mutant of saveFileToGitHub: a write that sends no sha replaces the file.
saveFileToGitHub_overwrite(st, path, data, existingSha) ==
    LET b == st[path]
        accepted == existingSha = NullSha \/ (b.present /\ existingSha = b.sha)
    IN  IF accepted
        THEN [ok |-> TRUE, store |-> [st EXCEPT ![path] = JsonBlob(data, b.sha + 1)]]
        ELSE [ok |-> FALSE, store |-> st]

saveFileToGitHub(st, path, data, existingSha) ==
    LET b == st[path]
        accepted == IF b.present THEN existingSha # NullSha /\ existingSha = b.sha
                    ELSE existingSha = NullSha
    IN  IF accepted
        THEN [ok |-> TRUE, store |-> [st EXCEPT ![path] = JsonBlob(data, b.sha + 1)]]
        ELSE [ok |-> FALSE, store |-> st]

\* The posts whose file is stored and parses.
StoredPosts == {i \in PostIds : store[PostPath(i)].present /\ store[PostPath(i)].kind = "json"}
StoredPost(i) == store[PostPath(i)].doc

\* ------------------------------------------------------------- vote ledger
\* The mutant of applyVote: the counters change and score is left as it was.
applyVote_staleScore(post, username, vote) ==
    LET previousVote == IF username \in DOMAIN post.voters THEN post.voters[username] ELSE 0
        up1 == IF previousVote = 1 THEN post.upvotes - 1 ELSE post.upvotes
        down1 == IF previousVote = -1 THEN post.downvotes - 1 ELSE post.downvotes
        up2 == IF vote = 1 THEN up1 + 1 ELSE up1
        down2 == IF vote = -1 THEN down1 + 1 ELSE down1
    IN  [post EXCEPT !.upvotes = up2, !.downvotes = down2,
                     !.voters = Put(post.voters, username, vote)]

\* The mutant of applyVote: the previous vote is not taken back.
applyVote_noDecrement(post, username, vote) ==
    LET up2 == IF vote = 1 THEN post.upvotes + 1 ELSE post.upvotes
        down2 == IF vote = -1 THEN post.downvotes + 1 ELSE post.downvotes
    IN  [post EXCEPT !.upvotes = up2, !.downvotes = down2,
                     !.voters = Put(post.voters, username, vote),
                     !.score = up2 - down2]

\* The mutant of applyVote: the voters map is rebuilt with the one voter.
applyVote_oneVoter(post, username, vote) ==
    LET previousVote == IF username \in DOMAIN post.voters THEN post.voters[username] ELSE 0
        up1 == IF previousVote = 1 THEN post.upvotes - 1 ELSE post.upvotes
        down1 == IF previousVote = -1 THEN post.downvotes - 1 ELSE post.downvotes
        up2 == IF vote = 1 THEN up1 + 1 ELSE up1
        down2 == IF vote = -1 THEN down1 + 1 ELSE down1
    IN  [post EXCEPT !.upvotes = up2, !.downvotes = down2,
                     !.voters = Put(EmptyMap, username, vote),
                     !.score = up2 - down2]

\* object[key] = value on an object JSON.parse made: the key "__proto__" is
\* the accessor of Object.prototype, whose setter ignores a value that is not
\* an object, so the assignment adds no property. (Read through that key the
\* object gives Object.prototype, which is neither 1 nor -1: the same as 0
\* for the comparisons of the vote handler.)
assign(object, key, value) ==
    IF key = "__proto__" THEN object ELSE Put(object, key, value)

applyVote(post, username, vote) ==
    LET previousVote == IF username \in DOMAIN post.voters THEN post.voters[username] ELSE 0
        up1 == IF previousVote = 1 THEN post.upvotes - 1 ELSE post.upvotes
        down1 == IF previousVote = -1 THEN post.downvotes - 1 ELSE post.downvotes
        up2 == IF vote = 1 THEN up1 + 1 ELSE up1
        down2 == IF vote = -1 THEN down1 + 1 ELSE down1
    IN  [post EXCEPT !.upvotes = up2, !.downvotes = down2,
                     !.voters = assign(post.voters, username, vote),
                     !.score = up2 - down2]

\* ------------------------------------------------------------ comment tree
NotFoundReply(comments) == [found |-> FALSE, comments |-> comments]

RECURSIVE addReplyFrom(_, _, _, _, _)
\* addReply(comments, depth), the loop of it resumed at element i.
addReplyFrom(comments, i, depth, parentId, comment) ==
    IF depth > MAX_NESTING_DEPTH THEN NotFoundReply(comments)
    ELSE IF i > Len(comments) THEN NotFoundReply(comments)
    ELSE LET c == comments[i] IN
         IF c.id = parentId
         THEN [found |-> TRUE,
               comments |-> [comments EXCEPT ![i].replies = Append(@, comment)]]
         ELSE LET sub == IF Len(c.replies) > 0
                         THEN addReplyFrom(c.replies, 1, depth + 1, parentId, comment)
                         ELSE NotFoundReply(c.replies)
              IN  IF sub.found
                  THEN [found |-> TRUE,
                        comments |-> [comments EXCEPT ![i].replies = sub.comments]]
                  ELSE addReplyFrom(comments, i + 1, depth, parentId, comment)

\* The mutant of addReply: the depth limit is hit one level early.
addReply_early(comments, parentId, comment) == addReplyFrom(comments, 1, 1, parentId, comment)

addReply(comments, parentId, comment) == addReplyFrom(comments, 1, 0, parentId, comment)

\* The mutant of insertComment: a top-level comment is put first (unshift).
insertComment_front(post, comment) ==
    IF truthy(comment.parentId)
    THEN LET r == addReplyFrom(post.comments, 1, 0, comment.parentId, comment) IN
         [found |-> r.found,
          post |-> IF r.found
                   THEN [post EXCEPT !.comments = r.comments, !.commentCount = @ + 1]
                   ELSE post]
    ELSE [found |-> TRUE,
          post |-> [post EXCEPT !.comments = <<comment>> \o @, !.commentCount = @ + 1]]

\* The mutant of insertComment: a reply is not counted in commentCount.
insertComment_flat(post, comment) ==
    IF truthy(comment.parentId)
    THEN LET r == addReplyFrom(post.comments, 1, 0, comment.parentId, comment) IN
         [found |-> r.found,
          post |-> IF r.found THEN [post EXCEPT !.comments = r.comments] ELSE post]
    ELSE [found |-> TRUE,
          post |-> [post EXCEPT !.comments = Append(@, comment), !.commentCount = @ + 1]]

\* The comment handler's change of the post: found = FALSE is its 404.
insertComment(post, comment) ==
    IF truthy(comment.parentId)
    THEN LET r == addReply(post.comments, comment.parentId, comment) IN
         [found |-> r.found,
          post |-> IF r.found
                   THEN [post EXCEPT !.comments = r.comments, !.commentCount = @ + 1]
                   ELSE post]
    ELSE [found |-> TRUE,
          post |-> [post EXCEPT !.comments = Append(@, comment), !.commentCount = @ + 1]]

\* --------------------------------------------- measures of a comment forest
RECURSIVE CountNodes(_)
CountNodes(comments) ==
    IF comments = << >> THEN 0
    ELSE 1 + CountNodes(Head(comments).replies) + CountNodes(Tail(comments))

RECURSIVE DepthFrom(_, _, _)
\* The depth of the node called id (top level is 0), or -1 when there is none.
DepthFrom(comments, id, depth) ==
    IF comments = << >> THEN -1
    ELSE IF Head(comments).id = id THEN depth
    ELSE LET below == DepthFrom(Head(comments).replies, id, depth + 1) IN
         IF below # -1 THEN below ELSE DepthFrom(Tail(comments), id, depth)

DepthOf(comments, id) == DepthFrom(comments, id, 0)

RECURSIVE Height(_)
\* The depth of the deepest node, or -1 for the empty forest.
Height(comments) ==
    IF comments = << >> THEN -1
    ELSE LET a == 1 + Height(Head(comments).replies)
             b == Height(Tail(comments))
         IN  IF a > b THEN a ELSE b

\* ------------------------------------------------------------ the handlers
\* A field the request body leaves out.
Undefined == "undefined"
NoChange == [bannerUrl |-> Undefined, iconUrl |-> Undefined, description |-> Undefined]
\* The bodies of an update request: each names one field.
Changes ==
    {[NoChange EXCEPT !.bannerUrl = "banner"], [NoChange EXCEPT !.iconUrl = "icon"],
     [NoChange EXCEPT !.description = "about"]}

SuperAdmin == "timco"
\* A community name that was never created.
NoCommunity == "nosuch"

Range(list) == {list[i] : i \in 1..Len(list)}

\* An answer whose body no client reads.
NoBody == [empty |-> TRUE]

IdleProc ==
    [op |-> "idle", pc |-> "idle", status |-> 0,
     user |-> "", post |-> NullId, community |-> "", vote |-> 0, parentId |-> NullId,
     index |-> EmptyDoc, indexSha |-> NullSha,
     data |-> EmptyDoc, dataSha |-> NullSha, path |-> IndexPath,
     commentId |-> NullId, change |-> NoChange, attempts |-> 0,
     healSha |-> NullSha, mark |-> 0,
     retentionDays |-> 0, jobNow |-> 0, scan |-> << >>, postsToDelete |-> << >>,
     direct |-> IndexPath, directKind |-> "none", used |-> "none", existed |-> FALSE,
     created |-> EmptyDoc, body |-> NoBody, run |-> 0, posts |-> << >>, dropped |-> {},
     viewed |-> NullId, userVote |-> 0, score |-> 0, newVote |-> 0]

\* The post ids a client can name: one that matches nothing, or the id of a
\* post created so far.
KnownPosts == {MissingId} \cup (1..(uuid.post - 1))

\* The write just answered by the store, as the history keeps it: the path, the
\* sha the writer sent and the sha the store gave the new content.
Applied(p, r, path, sha) ==
    IF r.ok THEN [hist EXCEPT !.applied = @ \cup {<<path, sha, r.store[path].sha>>}]
    ELSE [hist EXCEPT !.rejected = @ \cup {[op |-> proc[p].op, path |-> path, sha |-> sha]}]

\* Whether index.json, as stored, lists the key in one of its maps.
Indexed(st, map, key) ==
    /\ BlobKind(st, IndexPath) = "json"
    /\ st[IndexPath].doc # EmptyDoc
    /\ key \in DOMAIN st[IndexPath].doc[map]

\* The history h with a creation whose updateIndex was rejected after its
\* entity file was written: the answer given, whether the file resolves by its
\* direct path and whether the stored index lists the entity.
Orphaned(h, p, r, path, map, key) ==
    IF r.ok THEN h
    ELSE [h EXCEPT !.orphans = @ \cup
             {[op |-> proc[p].op, path |-> path, status |-> proc'[p].status,
               direct |-> directHit(getFileFromGitHub(r.store, path)),
               listed |-> Indexed(r.store, map, key)]}]

\* The history h with the answer to a vote that was given after the retention
\* job deleted the post's file.
LateVote(h, p, status) ==
    IF proc[p].post \in {d.post : d \in h.deleted}
    THEN [h EXCEPT !.lateVotes = @ \cup {[post |-> proc[p].post, status |-> status]}]
    ELSE h

Free(p) == proc[p].pc \in {"idle", "done"}

\* res.status(...).json(...): the handler ends; its request-scoped values die.
\* What outlives the request is the page of the client that made it: the post
\* it shows and the state of that Post component.
RespondJson(p, status, body) ==
    proc' = [proc EXCEPT ![p] = [IdleProc EXCEPT !.op = proc[p].op, !.pc = "done",
                                                 !.status = status, !.body = body,
                                                 !.viewed = proc[p].viewed,
                                                 !.userVote = proc[p].userVote,
                                                 !.score = proc[p].score,
                                                 !.newVote = proc[p].newVote]]

Respond(p, status) == RespondJson(p, status, NoBody)

\* The mutant of catchError: the handler starts over instead of answering.
catchError_retry(p) ==
    proc' = [proc EXCEPT ![p].pc = "getIndex", ![p].attempts = @ + 1,
                         ![p].index = EmptyDoc, ![p].data = EmptyDoc]

\* The mutant of catchError: the error is swallowed and the request answered
\* as created.
catchError_created(p) == Respond(p, 201)

\* catch (error) { res.status(500).json({ error: error.message }) }
catchError(p) == Respond(p, 500)

\* The mutant of jobCatch: the error of the job is thrown on into the request
\* that started it, if that request is still being handled.
jobCatch_rethrow(p) ==
    proc' = [q \in Procs |->
                IF q = p \/ (proc[q].run = proc[p].run /\ proc[q].pc \notin {"idle", "done"})
                THEN [IdleProc EXCEPT !.op = proc[q].op, !.pc = "done",
                                      !.status = IF q = p THEN 0 ELSE 500,
                                      !.viewed = proc[q].viewed,
                                      !.userVote = proc[q].userVote,
                                      !.score = proc[q].score,
                                      !.newVote = proc[q].newVote]
                ELSE proc[q]]

\* catch (error) { console.error('Cleanup job failed:', error) }: the job ends
\* and nothing is answered to anyone.
jobCatch(p) == Respond(p, 0)

\* The requests that start the cleanup job.
Triggers == {"feed", "config"}

\* The history h with the run of a cleanup job that ended in its catch.
JobFailed(h, p) ==
    IF proc[p].op = "cleanup" THEN [h EXCEPT !.failures = @ \cup {proc[p].run}] ELSE h

\* The history h with the answers given in this step to requests that start
\* the cleanup job: the run they started, the status, and whether a store call
\* of the request's own handler (p, when it failed) was refused.
Foreground(h, p, failed) ==
    [h EXCEPT !.triggers = @ \cup
        {[run |-> proc[q].run, op |-> proc[q].op, status |-> proc'[q].status,
          own |-> q = p /\ failed] :
            q \in {x \in Procs : /\ proc[x].op \in Triggers
                                /\ proc[x].pc # "done" /\ proc'[x].pc = "done"}}]

\* The mutant of ensureMaps: a document that lacks a map is replaced by a
\* fresh empty index.
ensureMaps_fresh(content) ==
    IF {"users", "communities", "posts"} \subseteq DOMAIN content THEN content
    ELSE InitialIndex(0)

\* The three maps of the index, and the index document with the ones it lacks
\* set to {}: the patch getIndex applies to the object it read, which it does
\* not save.
IndexMaps == {"users", "communities", "posts"}
ensureMaps(content) ==
    IF IndexMaps \subseteq DOMAIN content THEN content
    ELSE [k \in DOMAIN content \cup IndexMaps |->
            IF k \in DOMAIN content THEN content[k] ELSE EmptyMap]

\* getIndex: the read of index.json.
GetIndex(p) ==
    /\ proc[p].pc = "getIndex"
    /\ LET result == getFileFromGitHub(store, IndexPath) IN
       IF ~result.found \/ result.content = EmptyDoc
       THEN proc' = [proc EXCEPT ![p].pc = "healIndex",
                                 ![p].index = InitialIndex(now),
                                 ![p].indexSha = result.sha]
       ELSE proc' = [proc EXCEPT ![p].pc = "afterIndex",
                                 ![p].index = ensureMaps(result.content),
                                 ![p].indexSha = result.sha]
    /\ UNCHANGED <<store, now, uuid, hist>>

\* A vote request in the name of one of usernames (the handler takes any
\* non-empty username, registered or not).
StartVoteAs(p, limit, usernames) ==
    /\ Free(p)
    /\ hist.started < limit
    /\ \E username \in usernames, postId \in KnownPosts, vote \in VoteValues :
          proc' = [proc EXCEPT ![p] = [IdleProc EXCEPT !.op = "vote", !.pc = "getIndex",
                                         !.user = username, !.post = postId, !.vote = vote]]
    /\ hist' = [hist EXCEPT !.started = @ + 1]
    /\ UNCHANGED <<store, now, uuid>>

StartVote(p, limit) == StartVoteAs(p, limit, Users)

\* index.posts[postId] check, the read of the post and the vote applied to it.
VoteRead(p) ==
    /\ proc[p].op = "vote" /\ proc[p].pc = "afterIndex"
    /\ LET index == proc[p].index
           postId == proc[p].post
       IN  IF postId \notin DOMAIN index.posts
           THEN Respond(p, 404) /\ hist' = LateVote(hist, p, 404)
           ELSE LET postResult == getFileFromGitHub(store, index.posts[postId].file) IN
                IF ~postResult.found \/ postResult.content = EmptyDoc
                THEN catchError(p) /\ hist' = LateVote(hist, p, 500)
                ELSE /\ proc' = [proc EXCEPT
                          ![p].pc = "write",
                          ![p].path = index.posts[postId].file,
                          ![p].data = applyVote(postResult.content, proc[p].user, proc[p].vote),
                          ![p].dataSha = postResult.sha]
                     /\ UNCHANGED hist
    /\ UNCHANGED <<store, now, uuid>>

\* saveFileToGitHub(postFilePath, postData, ..., postResult.sha) and the reply.
VoteWrite(p) ==
    /\ proc[p].op = "vote" /\ proc[p].pc = "write"
    /\ LET r == saveFileToGitHub(store, proc[p].path, proc[p].data, proc[p].dataSha) IN
       /\ store' = r.store
       /\ hist' = LateVote(Applied(p, r, proc[p].path, proc[p].dataSha), p,
                            IF r.ok THEN 200 ELSE 500)
       /\ IF r.ok THEN RespondJson(p, 200, [score |-> proc[p].data.score]) ELSE catchError(p)
    /\ UNCHANGED <<now, uuid>>

StartComment(p, limit, authors, parents) ==
    /\ Free(p)
    /\ hist.started < limit
    /\ \E author \in authors, postId \in KnownPosts, parentId \in parents :
          proc' = [proc EXCEPT ![p] = [IdleProc EXCEPT !.op = "comment", !.pc = "getIndex",
                                         !.user = author, !.post = postId,
                                         !.parentId = parentId]]
    /\ hist' = [hist EXCEPT !.started = @ + 1]
    /\ UNCHANGED <<store, now, uuid>>

\* The mutant of CommentRead: commentCount++ and the save of the post come
\* before the check of what addReply found.
CommentRead_saveFirst(p) ==
    /\ proc[p].op = "comment" /\ proc[p].pc = "afterIndex"
    /\ proc[p].post \in DOMAIN proc[p].index.posts
    /\ LET file == proc[p].index.posts[proc[p].post].file
           postResult == getFileFromGitHub(store, file)
       IN  /\ postResult.found /\ postResult.content # EmptyDoc
           /\ LET comment == newComment(uuid.comment, proc[p].user, proc[p].parentId, now)
                  r == insertComment(postResult.content, comment)
                  counted == [r.post EXCEPT !.commentCount = postResult.content.commentCount + 1]
              IN  /\ store' = saveFileToGitHub(store, file, counted, postResult.sha).store
                  /\ IF ~r.found THEN Respond(p, 404)
                     ELSE proc' = [proc EXCEPT ![p].pc = "write", ![p].path = file,
                                               ![p].data = counted,
                                               ![p].dataSha = store'[file].sha,
                                               ![p].commentId = comment.id]
    /\ uuid' = [uuid EXCEPT !.comment = @ + 1]
    /\ UNCHANGED <<now, hist>>

\* index.posts[postId] check, the read of the post, the new comment and its
\* insertion (top level, or addReply under parentId).
CommentRead(p) ==
    /\ proc[p].op = "comment" /\ proc[p].pc = "afterIndex"
    /\ LET index == proc[p].index
           postId == proc[p].post
       IN  IF postId \notin DOMAIN index.posts
           THEN Respond(p, 404) /\ UNCHANGED <<uuid, hist>>
           ELSE LET postResult == getFileFromGitHub(store, index.posts[postId].file) IN
                IF ~postResult.found \/ postResult.content = EmptyDoc
                THEN Respond(p, 500) /\ UNCHANGED <<uuid, hist>>
                ELSE LET comment == newComment(uuid.comment, proc[p].user, proc[p].parentId, now)
                         r == insertComment(postResult.content, comment)
                     IN  /\ uuid' = [uuid EXCEPT !.comment = @ + 1]
                         /\ hist' = IF ~truthy(proc[p].parentId) THEN hist
                                    ELSE [hist EXCEPT !.reply =
                                            [depth |-> DepthOf(postResult.content.comments,
                                                               proc[p].parentId),
                                             found |-> r.found]]
                         /\ IF ~r.found
                            THEN Respond(p, 404)
                            ELSE proc' = [proc EXCEPT
                                    ![p].pc = "write",
                                    ![p].path = index.posts[postId].file,
                                    ![p].data = r.post,
                                    ![p].dataSha = postResult.sha,
                                    ![p].commentId = comment.id]
    /\ UNCHANGED <<store, now>>

\* saveFileToGitHub(postFilePath, postData, ..., postResult.sha); then the
\* author's comments list, when the index knows the author.
CommentWrite(p) ==
    /\ proc[p].op = "comment" /\ proc[p].pc = "write"
    /\ LET r == saveFileToGitHub(store, proc[p].path, proc[p].data, proc[p].dataSha) IN
       /\ store' = r.store
       /\ hist' = [Applied(p, r, proc[p].path, proc[p].dataSha) EXCEPT
                      !.inserted = IF r.ok THEN @ + 1 ELSE @]
       /\ IF ~r.ok THEN catchError(p)
          ELSE IF proc[p].user \in DOMAIN proc[p].index.users
          THEN proc' = [proc EXCEPT ![p].pc = "userRead", ![p].data = EmptyDoc]
          ELSE Respond(p, 201)
    /\ UNCHANGED <<now, uuid>>

CommentUserRead(p) ==
    /\ proc[p].op = "comment" /\ proc[p].pc = "userRead"
    /\ LET userFilePath == proc[p].index.users[proc[p].user].file
           userResult == getFileFromGitHub(store, userFilePath)
       IN  IF ~userResult.found THEN Respond(p, 201)
           ELSE IF userResult.content = EmptyDoc THEN Respond(p, 500)
           ELSE proc' = [proc EXCEPT
                   ![p].pc = "userWrite",
                   ![p].path = userFilePath,
                   ![p].data = [userResult.content EXCEPT !.comments =
                                   unshift(@, [postId |-> proc[p].post,
                                               commentId |-> proc[p].commentId])],
                   ![p].dataSha = userResult.sha]
    /\ UNCHANGED <<store, now, uuid, hist>>

CommentUserWrite(p) ==
    /\ proc[p].op = "comment" /\ proc[p].pc = "userWrite"
    /\ LET r == saveFileToGitHub(store, proc[p].path, proc[p].data, proc[p].dataSha) IN
       /\ store' = r.store
       /\ hist' = Applied(p, r, proc[p].path, proc[p].dataSha)
       /\ IF r.ok THEN Respond(p, 201) ELSE catchError(p)
    /\ UNCHANGED <<now, uuid>>

\* The parent ids a client can name: none, one that matches nothing, or the id
\* of a comment created so far.
KnownParents == {NullId, MissingId} \cup (1..(uuid.comment - 1))

\* ------------------------------------------------------------ seeded store
\* The repository after alice and bob registered, alice created r/gaming and
\* posted post 1 in it on day 0.
SeedIndex ==
    [lastUpdated |-> 0,
     communities |-> Put(EmptyMap, "gaming", communityRef("gaming", 0)),
     users |-> Put(Put(EmptyMap, "alice", userRef("alice", 0)), "bob", userRef("bob", 0)),
     posts |-> Put(EmptyMap, 1, postRef(1, "alice", "gaming", 0))]

SeedStore ==
    [path \in Paths |->
        IF path = IndexPath THEN JsonBlob(SeedIndex, 5)
        ELSE IF path = UserPath("alice")
             THEN JsonBlob([userData("alice", 0) EXCEPT !.posts = <<1>>], 2)
        ELSE IF path = UserPath("bob") THEN JsonBlob(userData("bob", 0), 1)
        ELSE IF path = CommunityPath("gaming")
             THEN JsonBlob([communityData("gaming", "alice", 0) EXCEPT !.posts = <<1>>], 2)
        ELSE IF path = PostPath(1) THEN JsonBlob(postData(1, "alice", "gaming", 0), 1)
        ELSE AbsentBlob]

NoReply == [depth |-> -2, found |-> FALSE]

InitHist ==
    [started |-> 0, applied |-> {}, rejected |-> {}, inserted |-> 0, reply |-> NoReply,
     updates |-> {}, loads |-> << >>, registers |-> {}, clicks |-> << >>, resolved |-> {},
     signups |-> {}, orphans |-> {}, joins |-> {}, sweeps |-> {},
     failures |-> {}, triggers |-> {}, removals |-> {},
     deleted |-> {}, swept |-> {}, lateVotes |-> {}, dropped |-> {}, listings |-> {}]

InitPost ==
    /\ store = SeedStore
    /\ proc = [p \in Procs |-> IdleProc]
    /\ now = 0
    /\ uuid = [post |-> 2, comment |-> 1]
    /\ hist = InitHist

NextPost ==
    \E p \in Procs :
        \/ StartVote(p, MaxRequests)
        \/ GetIndex(p)
        \/ VoteRead(p)
        \/ VoteWrite(p)
        \/ StartComment(p, MaxRequests, Users, KnownParents)
        \/ CommentRead(p)
        \/ CommentWrite(p)
        \/ CommentUserRead(p)
        \/ CommentUserWrite(p)

SpecPost == InitPost /\ [][NextPost]_vars

\* Comments whose parentId is any value a request can carry.
NextParents ==
    \E p \in Procs :
        \/ StartComment(p, MaxRequests, Users, KnownParents \cup {FalsyId})
        \/ GetIndex(p)
        \/ CommentRead(p)
        \/ CommentWrite(p)
        \/ CommentUserRead(p)
        \/ CommentUserWrite(p)

SpecParents == InitPost /\ [][NextParents]_vars

\* The usernames of vote requests: the registered users and a name that is a
\* key every object inherits.
VoterNames == Users \cup {"__proto__"}

NextVoters ==
    \E p \in Procs :
        \/ StartVoteAs(p, MaxRequests, VoterNames)
        \/ GetIndex(p)
        \/ VoteRead(p)
        \/ VoteWrite(p)

SpecVoters == InitPost /\ [][NextVoters]_vars

\* ------------------------------------------------------ community handlers
\* updateIndex: stamps lastUpdated and writes index.json under the sha held.
updateIndex(st, indexData, sha, t) ==
    saveFileToGitHub(st, IndexPath, [indexData EXCEPT !.lastUpdated = t], sha)

\* The handler's last step when it ends with updateIndex(index, indexSha).
UpdateIndexStep(p, okStatus) ==
    /\ proc[p].pc = "updIndex"
    /\ LET r == updateIndex(store, proc[p].index, proc[p].indexSha, now) IN
       /\ store' = r.store
       /\ hist' = Applied(p, r, IndexPath, proc[p].indexSha)
       /\ IF r.ok THEN Respond(p, okStatus) ELSE catchError(p)
    /\ UNCHANGED <<now, uuid>>

applyChange(community, change) ==
    [community EXCEPT
        !.bannerUrl = IF change.bannerUrl # Undefined THEN change.bannerUrl ELSE @,
        !.iconUrl = IF change.iconUrl # Undefined THEN change.iconUrl ELSE @,
        !.description = IF change.description # Undefined THEN change.description ELSE @]

StartUpdateCommunity(p, limit) ==
    /\ Free(p)
    /\ hist.started < limit
    /\ \E user \in Users \cup {SuperAdmin}, name \in Communities \cup {NoCommunity},
          change \in Changes :
          proc' = [proc EXCEPT ![p] = [IdleProc EXCEPT !.op = "updateCommunity",
                                         !.pc = "getIndex", !.user = user,
                                         !.community = name, !.change = change]]
    /\ hist' = [hist EXCEPT !.started = @ + 1]
    /\ UNCHANGED <<store, now, uuid>>

\* index.communities[community] check, the read of the community, the
\* moderator check and the change of the fields the body names.
UpdateCommunityRead(p) ==
    /\ proc[p].op = "updateCommunity" /\ proc[p].pc = "afterIndex"
    /\ LET index == proc[p].index
           name == proc[p].community
           user == proc[p].user
           change == proc[p].change
       IN  IF name \notin DOMAIN index.communities
           THEN Respond(p, 404)
           ELSE LET path == index.communities[name].file
                    communityResult == getFileFromGitHub(store, path)
                    community == communityResult.content
                IN  IF ~communityResult.found \/ community = EmptyDoc
                    THEN catchError(p)
                    ELSE IF /\ user \notin Range(community.moderators)
                            /\ community.creator # user
                            /\ user # SuperAdmin
                    THEN Respond(p, 403)
                    ELSE proc' = [proc EXCEPT
                            ![p].pc = "write",
                            ![p].path = path,
                            ![p].data = applyChange(community, change),
                            ![p].dataSha = communityResult.sha,
                            ![p].index = IF change.iconUrl # Undefined
                                         THEN [index EXCEPT !.communities[name].iconUrl =
                                                                change.iconUrl]
                                         ELSE index]
    /\ UNCHANGED <<store, now, uuid, hist>>

\* saveFileToGitHub(communityFilePath, communityData, ..., communityResult.sha);
\* updateIndex follows only when the body named iconUrl.
UpdateCommunityWrite(p) ==
    /\ proc[p].op = "updateCommunity" /\ proc[p].pc = "write"
    /\ LET r == saveFileToGitHub(store, proc[p].path, proc[p].data, proc[p].dataSha) IN
       /\ store' = r.store
       /\ IF ~r.ok THEN catchError(p)
          ELSE IF proc[p].change.iconUrl # Undefined
          THEN proc' = [proc EXCEPT ![p].pc = "updIndex", ![p].data = EmptyDoc]
          ELSE Respond(p, 200)
       /\ hist' = [Applied(p, r, proc[p].path, proc[p].dataSha) EXCEPT !.updates =
                      @ \cup {[p |-> p, base |-> proc[p].dataSha,
                               change |-> proc[p].change, applied |-> r.ok,
                               status |-> proc'[p].status]}]
    /\ UNCHANGED <<now, uuid>>

UpdateCommunityIndex(p) ==
    /\ proc[p].op = "updateCommunity"
    /\ UpdateIndexStep(p, 200)

\* The mutant of includes: the user is never found among the members.
includes_never(list, x) == FALSE

\* communityData.members.includes(username)
includes(list, x) == x \in Range(list)

\* The history h with a join that was answered 200: whether the user was a
\* member already, whether the request wrote anything, the memberCount it
\* returned and the memberCount of the document stored when it answered.
Joined(h, user, member, wrote, returned, stored) ==
    [h EXCEPT !.joins = @ \cup {[user |-> user, member |-> member, wrote |-> wrote,
                                  returned |-> returned, stored |-> stored]}]

StartJoin(p, limit) ==
    /\ Free(p)
    /\ hist.started < limit
    /\ \E username \in Users, name \in Communities \cup {NoCommunity} :
          proc' = [proc EXCEPT ![p] = [IdleProc EXCEPT !.op = "join", !.pc = "getIndex",
                                         !.user = username, !.community = name]]
    /\ hist' = [hist EXCEPT !.started = @ + 1]
    /\ UNCHANGED <<store, now, uuid>>

\* index.communities[community] check, the read of the community and, for a
\* user not yet in members, the push and the recount.
JoinRead(p) ==
    /\ proc[p].op = "join" /\ proc[p].pc = "afterIndex"
    /\ LET index == proc[p].index
           name == proc[p].community
       IN  IF name \notin DOMAIN index.communities
           THEN Respond(p, 404) /\ UNCHANGED hist
           ELSE LET path == index.communities[name].file
                    communityResult == getFileFromGitHub(store, path)
                    community == communityResult.content
                IN  IF ~communityResult.found \/ community = EmptyDoc
                    THEN catchError(p) /\ UNCHANGED hist
                    ELSE IF includes(community.members, proc[p].user)
                    THEN /\ RespondJson(p, 200, [memberCount |-> community.memberCount])
                         /\ hist' = Joined(hist, proc[p].user, TRUE,
                                           proc[p].healSha # NullSha,
                                           community.memberCount, community.memberCount)
                    ELSE LET members == Append(community.members, proc[p].user) IN
                         /\ proc' = [proc EXCEPT
                               ![p].pc = "write",
                               ![p].path = path,
                               ![p].data = [community EXCEPT !.members = members,
                                                             !.memberCount = Len(members)],
                               ![p].dataSha = communityResult.sha]
                         /\ UNCHANGED hist
    /\ UNCHANGED <<store, now, uuid>>

\* saveFileToGitHub(communityFilePath, communityData, ..., communityResult.sha)
\* and the member count copied into the index entry.
JoinWrite(p) ==
    /\ proc[p].op = "join" /\ proc[p].pc = "write"
    /\ LET r == saveFileToGitHub(store, proc[p].path, proc[p].data, proc[p].dataSha) IN
       /\ store' = r.store
       /\ hist' = Applied(p, r, proc[p].path, proc[p].dataSha)
       /\ IF ~r.ok THEN catchError(p)
          ELSE proc' = [proc EXCEPT
                  ![p].pc = "updIndex",
                  ![p].index = [@ EXCEPT !.communities[proc[p].community].memberCount =
                                             proc[p].data.memberCount],
                  ![p].data = EmptyDoc]
    /\ UNCHANGED <<now, uuid>>

JoinIndex(p) ==
    /\ proc[p].op = "join" /\ proc[p].pc = "updIndex"
    /\ LET r == updateIndex(store, proc[p].index, proc[p].indexSha, now)
           memberCount == proc[p].index.communities[proc[p].community].memberCount
       IN  /\ store' = r.store
           /\ IF r.ok THEN RespondJson(p, 200, [memberCount |-> memberCount])
              ELSE catchError(p)
           /\ hist' = IF r.ok
                      THEN Joined(Applied(p, r, IndexPath, proc[p].indexSha),
                                  proc[p].user, FALSE, TRUE, memberCount,
                                  getFileFromGitHub(r.store, proc[p].path).content.memberCount)
                      ELSE Applied(p, r, IndexPath, proc[p].indexSha)
    /\ UNCHANGED <<now, uuid>>

NextCommunity ==
    \E p \in Procs :
        \/ StartUpdateCommunity(p, MaxCommunityRequests)
        \/ StartJoin(p, MaxCommunityRequests)
        \/ GetIndex(p)
        \/ UpdateCommunityRead(p)
        \/ UpdateCommunityWrite(p)
        \/ UpdateCommunityIndex(p)
        \/ JoinRead(p)
        \/ JoinWrite(p)
        \/ JoinIndex(p)

SpecCommunity == InitPost /\ [][NextCommunity]_vars

\* A store call that was issued is answered: a handler that can take its next
\* step takes it.
StepCommunity(p) ==
    \/ GetIndex(p)
    \/ UpdateCommunityRead(p)
    \/ UpdateCommunityWrite(p)
    \/ UpdateCommunityIndex(p)
    \/ JoinRead(p)
    \/ JoinWrite(p)
    \/ JoinIndex(p)

FairSpecCommunity == SpecCommunity /\ \A p \in Procs : WF_vars(StepCommunity(p))

\* ----------------------------------------------------------- index repair
\* What a load answers, as the history keeps it: the status, the index
\* returned, the sha of index.json when the load returned, how many writes of
\* index.json the load made itself, and how many loads had been answered
\* when it started.
LoadRecord(p, status) ==
    [status |-> status, content |-> proc[p].index,
     sha |-> IF proc[p].healSha # NullSha THEN proc[p].healSha ELSE proc[p].indexSha,
     own |-> IF proc[p].healSha # NullSha THEN 1 ELSE 0,
     startedAt |-> proc[p].mark]

\* The mutant of HealIndex: the fresh index is returned and never saved.
HealIndex_unsaved(p) ==
    /\ proc[p].pc = "healIndex"
    /\ proc' = [proc EXCEPT ![p].pc = "afterIndex", ![p].indexSha = NullSha]
    /\ UNCHANGED <<store, now, uuid, hist>>

\* getIndex on a missing, empty or corrupt index.json: the fresh index is
\* saved (under the sha that was read, if any) and returned with sha: null.
HealIndex(p) ==
    /\ proc[p].pc = "healIndex"
    /\ LET r == saveFileToGitHub(store, IndexPath, proc[p].index, proc[p].indexSha) IN
       /\ store' = r.store
       /\ IF r.ok
          THEN /\ proc' = [proc EXCEPT ![p].pc = "afterIndex", ![p].indexSha = NullSha,
                                       ![p].healSha = r.store[IndexPath].sha]
               /\ hist' = Applied(p, r, IndexPath, proc[p].indexSha)
          ELSE /\ IF proc[p].op = "cleanup" THEN jobCatch(p) ELSE catchError(p)
               /\ hist' = Foreground(
                             JobFailed([Applied(p, r, IndexPath, proc[p].indexSha)
                                           EXCEPT !.loads =
                                              IF proc[p].op = "loadIndex"
                                              THEN Append(@, LoadRecord(p, 500)) ELSE @], p),
                             p, TRUE)
    /\ UNCHANGED <<now, uuid>>

\* app.get('/api/index')
StartLoadIndex(p, limit) ==
    /\ Free(p)
    /\ hist.started < limit
    /\ proc' = [proc EXCEPT ![p] = [IdleProc EXCEPT !.op = "loadIndex", !.pc = "getIndex",
                                      !.mark = Len(hist.loads)]]
    /\ hist' = [hist EXCEPT !.started = @ + 1]
    /\ UNCHANGED <<store, now, uuid>>

LoadIndexRespond(p) ==
    /\ proc[p].op = "loadIndex" /\ proc[p].pc = "afterIndex"
    /\ Respond(p, 200)
    /\ hist' = [hist EXCEPT !.loads = Append(@, LoadRecord(p, 200))]
    /\ UNCHANGED <<store, now, uuid>>

\* index.json is a parseable index with an entry for the user.
Listed(st, username) ==
    /\ st[IndexPath].kind = "json"
    /\ "users" \in DOMAIN st[IndexPath].doc
    /\ username \in DOMAIN st[IndexPath].doc.users

\* The answer to a register, as the history keeps it, with whether the index
\* listed the user when the request came in.
SignedUp(h, p, status) ==
    [h EXCEPT !.signups = @ \cup {[user |-> proc[p].user,
                                   existed |-> proc[p].existed,
                                   status |-> status]}]

\* app.post('/api/auth/register')
StartRegister(p, limit) ==
    /\ Free(p)
    /\ hist.started < limit
    /\ \E username \in Users :
          proc' = [proc EXCEPT ![p] = [IdleProc EXCEPT !.op = "register", !.pc = "getIndex",
                                         !.user = username,
                                         !.existed = Listed(store, username)]]
    /\ hist' = [hist EXCEPT !.started = @ + 1]
    /\ UNCHANGED <<store, now, uuid>>

\* index.users[username] check and the user document to be created.
RegisterCheck(p) ==
    /\ proc[p].op = "register" /\ proc[p].pc = "afterIndex"
    /\ LET username == proc[p].user IN
       IF username \in DOMAIN proc[p].index.users
       THEN Respond(p, 400) /\ hist' = SignedUp(hist, p, 400)
       ELSE /\ proc' = [proc EXCEPT
                 ![p].pc = "write",
                 ![p].path = UserPath(username),
                 ![p].data = userData(username, now),
                 ![p].dataSha = NullSha,
                 ![p].index = [@ EXCEPT !.users = Put(@, username, userRef(username, now))]]
            /\ UNCHANGED hist
    /\ UNCHANGED <<store, now, uuid>>

\* saveFileToGitHub(userFilePath, userData, ...): no sha is sent.
RegisterWrite(p) ==
    /\ proc[p].op = "register" /\ proc[p].pc = "write"
    /\ LET r == saveFileToGitHub(store, proc[p].path, proc[p].data, proc[p].dataSha) IN
       /\ store' = r.store
       /\ hist' = IF r.ok THEN Applied(p, r, proc[p].path, proc[p].dataSha)
                  ELSE SignedUp(Applied(p, r, proc[p].path, proc[p].dataSha), p, 500)
       /\ IF r.ok THEN proc' = [proc EXCEPT ![p].pc = "updIndex", ![p].data = EmptyDoc]
          ELSE catchError(p)
    /\ UNCHANGED <<now, uuid>>

\* updateIndex(index, indexSha) and the 201; the history keeps whether the
\* index was repaired by this request's getIndex, whether index.json was still
\* the one that repair saved, the answer, and whether the index lists the user.
RegisterIndex(p) ==
    /\ proc[p].op = "register" /\ proc[p].pc = "updIndex"
    /\ LET r == updateIndex(store, proc[p].index, proc[p].indexSha, now) IN
       /\ store' = r.store
       /\ IF r.ok THEN Respond(p, 201) ELSE catchError(p)
       /\ hist' = [Orphaned(SignedUp(Applied(p, r, IndexPath, proc[p].indexSha), p,
                                     IF r.ok THEN 201 ELSE 500),
                            p, r, UserPath(proc[p].user), "users", proc[p].user)
                   EXCEPT !.registers =
                      @ \cup {[healed |-> proc[p].healSha # NullSha,
                               clean |-> store[IndexPath].sha = proc[p].healSha,
                               status |-> proc'[p].status,
                               listed |-> Listed(r.store, proc[p].user)]}]
    /\ UNCHANGED <<now, uuid>>

Tick ==
    /\ now + TickDays <= MaxDay
    /\ now' = now + TickDays
    /\ UNCHANGED <<store, proc, uuid, hist>>

\* A repository without index.json, or with one that is empty or unparseable.
EmptyStores ==
    {[path \in Paths |-> IF path = IndexPath THEN b ELSE AbsentBlob] :
        b \in {AbsentBlob,
               [present |-> TRUE, kind |-> "empty", doc |-> EmptyDoc, sha |-> 1],
               [present |-> TRUE, kind |-> "corrupt", doc |-> EmptyDoc, sha |-> 1]}}

InitIndex ==
    /\ store \in EmptyStores
    /\ proc = [p \in Procs |-> IdleProc]
    /\ now = 0
    /\ uuid = [post |-> 1, comment |-> 1]
    /\ hist = InitHist

NextIndex ==
    \/ Tick
    \/ \E p \in Procs :
        \/ StartLoadIndex(p, MaxIndexRequests)
        \/ StartRegister(p, MaxIndexRequests)
        \/ GetIndex(p)
        \/ HealIndex(p)
        \/ LoadIndexRespond(p)
        \/ RegisterCheck(p)
        \/ RegisterWrite(p)
        \/ RegisterIndex(p)

SpecIndex == InitIndex /\ [][NextIndex]_vars

\* index.json documents that are not empty and lack some of the three maps:
\* the seeded index without those maps.
PartialIndexes ==
    {[k \in {"lastUpdated"} \cup maps |-> SeedStore[IndexPath].doc[k]] :
        maps \in (SUBSET IndexMaps) \ {IndexMaps}}

\* Stores whose index.json is missing, or lacks some of its maps while the
\* other files are the seeded ones.
PartialStores ==
    {[path \in Paths |-> IF path = IndexPath THEN AbsentBlob ELSE AbsentBlob]} \cup
    {[SeedStore EXCEPT ![IndexPath].doc = d] : d \in PartialIndexes}

InitPartial ==
    /\ store \in PartialStores
    /\ proc = [p \in Procs |-> IdleProc]
    /\ now = 0
    /\ uuid = [post |-> 1, comment |-> 1]
    /\ hist = InitHist

SpecPartial == InitPartial /\ [][NextIndex]_vars

\* -------------------------------------------------------------- retention
\* getConfig: the stored config, or the default when config.json is missing or
\* empty.
getConfig(st) ==
    LET result == getFileFromGitHub(st, ConfigPath) IN
    IF ~result.found \/ result.content = EmptyDoc
    THEN [retentionDays |-> DefaultRetentionDays]
    ELSE result.content

\* The mutant of deleteFile: the store answers a delete of any file, stored or
\* not, under any sha, as done.
deleteFile_absentOk(st, path, sha) ==
    [ok |-> TRUE, store |-> [st EXCEPT ![path] = AbsentBlob]]

\* octokit.repos.deleteFile: the file is removed when the sha sent is the sha of
\* the file stored; anything else is an error.
deleteFile(st, path, sha) ==
    IF st[path].present /\ sha # NullSha /\ sha = st[path].sha
    THEN [ok |-> TRUE, store |-> [st EXCEPT ![path] = AbsentBlob]]
    ELSE [ok |-> FALSE, store |-> st]

\* The ids of index.posts in the order Object.entries gives them.
RECURSIVE Entries(_)
Entries(ids) ==
    IF ids = {} THEN << >>
    ELSE LET postId == CHOOSE x \in ids : \A y \in ids : x <= y
         IN  <<postId>> \o Entries(ids \ {postId})

\* age > retentionMs
Expired(meta, t, retentionDays) == t - meta.createdAt > retentionDays

RECURSIVE SelectExpired(_, _, _, _)
SelectExpired(ids, posts, t, retentionDays) ==
    IF ids = << >> THEN << >>
    ELSE (IF Expired(posts[Head(ids)], t, retentionDays) THEN <<Head(ids)>> ELSE << >>)
         \o SelectExpired(Tail(ids), posts, t, retentionDays)

\* The mutant of slice: the whole list is kept.
slice_all(list, n) == list

\* postsToDelete.slice(0, 5)
slice(list, n) == SubSeq(list, 1, IF Len(list) < n THEN Len(list) ELSE n)

NoResponse == 0

\* The job's file for a post, as the index the job read names it.
JobFile(p, postId) == proc[p].index.posts[postId].file

\* The end of the job: if (changed) updateIndex(index, indexSha), or nothing.
CleanupAfterLoop(p, index) ==
    proc' = [proc EXCEPT ![p].pc = "updIndex", ![p].index = index,
                         ![p].scan = << >>, ![p].postsToDelete = << >>]

\* cleanupOldPosts(), started by app.get('/api/posts') one time in ten.
StartCleanup(p, limit) ==
    /\ Free(p)
    /\ hist.started < limit
    /\ proc' = [proc EXCEPT ![p] = [IdleProc EXCEPT !.op = "cleanup", !.pc = "getConfig",
                                                    !.run = hist.started + 1]]
    /\ hist' = [hist EXCEPT !.started = @ + 1]
    /\ UNCHANGED <<store, now, uuid>>

CleanupConfig(p) ==
    /\ proc[p].op = "cleanup" /\ proc[p].pc = "getConfig"
    /\ proc' = [proc EXCEPT ![p].pc = "getIndex",
                            ![p].retentionDays = getConfig(store).retentionDays]
    /\ UNCHANGED <<store, now, uuid, hist>>

\* now = new Date(), and the loop over index.posts up to its first read of an
\* expired post.
CleanupPlan(p) ==
    /\ proc[p].op = "cleanup" /\ proc[p].pc = "afterIndex"
    /\ LET posts == proc[p].index.posts
           expired == SelectExpired(Entries(DOMAIN posts), posts, now, proc[p].retentionDays)
       IN  IF expired = << >>
           THEN Respond(p, NoResponse)
           ELSE proc' = [proc EXCEPT ![p].pc = "check", ![p].jobNow = now,
                                     ![p].scan = expired]
    /\ UNCHANGED <<store, now, uuid, hist>>

\* The read of one expired post and the test of its comments; after the last
\* one, the batch is cut.
CleanupCheck(p) ==
    /\ proc[p].op = "cleanup" /\ proc[p].pc = "check"
    /\ LET postId == Head(proc[p].scan)
           postResult == getFileFromGitHub(store, JobFile(p, postId))
           inactive == /\ postResult.found
                       /\ \/ postResult.content = EmptyDoc
                          \/ postResult.content.comments = << >>
           found == IF inactive THEN Append(proc[p].postsToDelete, postId)
                    ELSE proc[p].postsToDelete
       IN  IF Tail(proc[p].scan) # << >>
           THEN proc' = [proc EXCEPT ![p].scan = Tail(@), ![p].postsToDelete = found]
           ELSE IF found = << >>
                THEN Respond(p, NoResponse)
                ELSE proc' = [proc EXCEPT ![p].pc = "delete", ![p].scan = << >>,
                                          ![p].postsToDelete = slice(found, CleanupBatch)]
    /\ UNCHANGED <<store, now, uuid, hist>>

\* What the job did about one post of its batch, kept when the job moves on:
\* whether the file is still stored.
Swept(h, p, postId, st) ==
    [h EXCEPT !.swept = @ \cup {[post |-> postId, run |-> proc[p].run,
                                  stored |-> st[PostPath(postId)].present]}]

\* delete index.posts[postId]; changed = true; then the next post of the batch
\* or the index update.
CleanupNext(p) ==
    LET index == [proc[p].index EXCEPT !.posts = Remove(@, Head(proc[p].postsToDelete))]
        rest == Tail(proc[p].postsToDelete)
    IN  IF rest = << >>
        THEN CleanupAfterLoop(p, index)
        ELSE proc' = [proc EXCEPT ![p].pc = "delete", ![p].index = index,
                                  ![p].postsToDelete = rest, ![p].dataSha = NullSha]

\* deleteFileFromGitHub, first half: the read that finds the sha to delete.
CleanupDeleteRead(p) ==
    /\ proc[p].op = "cleanup" /\ proc[p].pc = "delete"
    /\ LET postId == Head(proc[p].postsToDelete)
           result == getFileFromGitHub(store, JobFile(p, postId))
       IN  IF ~result.found \/ result.sha = NullSha
           THEN CleanupNext(p) /\ hist' = Swept(hist, p, postId, store)
           ELSE /\ proc' = [proc EXCEPT ![p].pc = "deleteFile", ![p].dataSha = result.sha]
                /\ UNCHANGED hist
    /\ UNCHANGED <<store, now, uuid>>

\* deleteFileFromGitHub, second half: the delete under that sha; a failure
\* is logged and the job goes on.
CleanupDeleteFile(p) ==
    /\ proc[p].op = "cleanup" /\ proc[p].pc = "deleteFile"
    /\ LET postId == Head(proc[p].postsToDelete)
           path == JobFile(p, postId)
           r == deleteFile(store, path, proc[p].dataSha)
           was == store[path]
           gone == [post |-> postId, run |-> proc[p].run,
                    comments |-> IF was.kind = "json" THEN Len(was.doc.comments) ELSE 0,
                    age |-> now - proc[p].index.posts[postId].createdAt,
                    retentionDays |-> proc[p].retentionDays]
       IN  /\ store' = r.store
           /\ hist' = Swept(IF r.ok THEN [hist EXCEPT !.deleted = @ \cup {gone}] ELSE hist,
                            p, postId, r.store)
           /\ CleanupNext(p)
    /\ UNCHANGED <<now, uuid>>

\* The history h with the end of a run that reached its index update: whether
\* the update was saved, the posts whose entry it took out of the stored index,
\* and whether every other entry of the stored index stayed as it was.
IndexSwept(h, p, r) ==
    LET old == getFileFromGitHub(store, IndexPath).content
        new == getFileFromGitHub(r.store, IndexPath).content
    IN  [h EXCEPT !.sweeps = @ \cup
            {[run |-> proc[p].run, saved |-> r.ok,
              unlisted |-> IF old = EmptyDoc \/ new = EmptyDoc THEN {}
                           ELSE DOMAIN old.posts \ DOMAIN new.posts,
              kept |-> \/ old = EmptyDoc \/ new = EmptyDoc
                       \/ /\ new.users = old.users
                          /\ new.communities = old.communities
                          /\ DOMAIN new.posts \subseteq DOMAIN old.posts
                          /\ \A i \in DOMAIN new.posts : new.posts[i] = old.posts[i]]}]

\* if (changed) await updateIndex(index, indexSha); an error ends in the
\* job's own catch.
CleanupIndex(p) ==
    /\ proc[p].op = "cleanup" /\ proc[p].pc = "updIndex"
    /\ LET r == updateIndex(store, proc[p].index, proc[p].indexSha, now) IN
       /\ store' = r.store
       /\ IF r.ok THEN Respond(p, NoResponse) ELSE jobCatch(p)
       /\ hist' = Foreground(
                     IndexSwept(IF r.ok THEN Applied(p, r, IndexPath, proc[p].indexSha)
                                ELSE JobFailed(Applied(p, r, IndexPath, proc[p].indexSha), p),
                                p, r),
                     p, FALSE)
    /\ UNCHANGED <<now, uuid>>

\* The seeded repository on day 20, with a second post made that day, and
\* config.json either missing or asking for ten days.
RetentionStores ==
    {[SeedStore EXCEPT
        ![IndexPath] = JsonBlob([SeedIndex EXCEPT
                                   !.posts = Put(@, 2, postRef(2, "bob", "gaming", 20)),
                                   !.lastUpdated = 20], 6),
        ![PostPath(2)] = JsonBlob(postData(2, "bob", "gaming", 20), 1),
        ![CommunityPath("gaming")] =
            JsonBlob([communityData("gaming", "alice", 0) EXCEPT !.posts = <<2, 1>>], 3),
        ![UserPath("bob")] = JsonBlob([userData("bob", 0) EXCEPT !.posts = <<2>>], 2),
        ![ConfigPath] = c] :
        c \in {AbsentBlob, JsonBlob([retentionDays |-> 10], 1)}}

InitRetention ==
    /\ store \in RetentionStores
    /\ proc = [p \in Procs |-> IdleProc]
    /\ now = 20
    /\ uuid = [post |-> 3, comment |-> 1]
    /\ hist = InitHist

NextRetention ==
    \/ Tick
    \/ \E p \in Procs :
        \/ StartCleanup(p, MaxRetentionRequests)
        \/ CleanupConfig(p)
        \/ GetIndex(p)
        \/ CleanupPlan(p)
        \/ CleanupCheck(p)
        \/ CleanupDeleteRead(p)
        \/ CleanupDeleteFile(p)
        \/ CleanupIndex(p)
        \/ StartVote(p, MaxRetentionRequests)
        \/ VoteRead(p)
        \/ VoteWrite(p)
        \/ StartComment(p, MaxRetentionRequests, {"alice"}, {NullId})
        \/ CommentRead(p)
        \/ CommentWrite(p)
        \/ CommentUserRead(p)
        \/ CommentUserWrite(p)

SpecRetention == InitRetention /\ [][NextRetention]_vars

\* A repository with more expired posts than one run may delete: posts
\* 1..MaxBatchPosts made by alice in r/gaming on day 0, some of them commented.
BatchPaths == Paths \cup {PostPath(i) : i \in 1..MaxBatchPosts}

BatchIndex ==
    [SeedIndex EXCEPT !.posts = [i \in 1..MaxBatchPosts |-> postRef(i, "alice", "gaming", 0)]]

BatchStore(commented) ==
    [path \in BatchPaths |->
        IF path = IndexPath THEN JsonBlob(BatchIndex, 5)
        ELSE IF path \in {PostPath(i) : i \in commented}
             THEN JsonBlob([postData(path[2], "alice", "gaming", 0) EXCEPT
                               !.comments = <<newComment(1, "bob", NullId, 0)>>,
                               !.commentCount = 1], 2)
        ELSE IF path \in {PostPath(i) : i \in 1..MaxBatchPosts}
             THEN JsonBlob(postData(path[2], "alice", "gaming", 0), 1)
        ELSE IF path = CommunityPath("gaming")
             THEN JsonBlob([communityData("gaming", "alice", 0) EXCEPT
                               !.posts = [j \in 1..MaxBatchPosts |-> MaxBatchPosts + 1 - j]],
                           MaxBatchPosts + 1)
        ELSE IF path = UserPath("alice")
             THEN JsonBlob([userData("alice", 0) EXCEPT
                               !.posts = [j \in 1..MaxBatchPosts |-> MaxBatchPosts + 1 - j]],
                           MaxBatchPosts + 1)
        ELSE IF path = UserPath("bob")
             THEN JsonBlob([userData("bob", 0) EXCEPT
                               !.comments = [j \in 1..Cardinality(commented) |->
                                               [postId |-> Entries(commented)[j],
                                                commentId |-> 1]]],
                           Cardinality(commented) + 1)
        ELSE IF path \in Paths THEN SeedStore[path]
        ELSE AbsentBlob]

InitBatch ==
    /\ store \in {BatchStore(commented) : commented \in SUBSET {1, MaxBatchPosts}}
    /\ proc = [p \in Procs |-> IdleProc]
    /\ now = MaxDay
    /\ uuid = [post |-> MaxBatchPosts + 1, comment |-> 2]
    /\ hist = InitHist

NextBatch ==
    \E p \in Procs :
        \/ StartCleanup(p, MaxBatchRuns)
        \/ CleanupConfig(p)
        \/ GetIndex(p)
        \/ CleanupPlan(p)
        \/ CleanupCheck(p)
        \/ CleanupDeleteRead(p)
        \/ CleanupDeleteFile(p)
        \/ CleanupIndex(p)

SpecBatch == InitBatch /\ [][NextBatch]_vars

\* The cleanup job beside a handler that writes a community document and the
\* index (join), on the repository of InitRetention.
NextSweep ==
    \/ Tick
    \/ \E p \in Procs :
        \/ StartCleanup(p, MaxSweepRequests)
        \/ CleanupConfig(p)
        \/ GetIndex(p)
        \/ CleanupPlan(p)
        \/ CleanupCheck(p)
        \/ CleanupDeleteRead(p)
        \/ CleanupDeleteFile(p)
        \/ CleanupIndex(p)
        \/ StartJoin(p, MaxSweepRequests)
        \/ JoinRead(p)
        \/ JoinWrite(p)
        \/ JoinIndex(p)

SpecSweep == InitRetention /\ [][NextSweep]_vars

\* ------------------------------------------------------------ create post
\* app.post('/api/r/:community/posts')
StartCreatePost(p, limit) ==
    /\ Free(p)
    /\ hist.started < limit
    /\ uuid.post <= MaxPosts
    /\ \E community \in Communities \cup {NoCommunity}, author \in Users :
          proc' = [proc EXCEPT ![p] = [IdleProc EXCEPT !.op = "createPost", !.pc = "getIndex",
                                         !.community = community, !.user = author]]
    /\ hist' = [hist EXCEPT !.started = @ + 1]
    /\ UNCHANGED <<store, now, uuid>>

\* index.communities[community] check, uuidv4() and the new post document.
CreatePostCheck(p) ==
    /\ proc[p].op = "createPost" /\ proc[p].pc = "afterIndex"
    /\ IF proc[p].community \notin DOMAIN proc[p].index.communities
       THEN Respond(p, 404) /\ UNCHANGED uuid
       ELSE /\ uuid.post <= MaxPosts
            /\ uuid' = [uuid EXCEPT !.post = @ + 1]
            /\ proc' = [proc EXCEPT
                  ![p].pc = "write",
                  ![p].post = uuid.post,
                  ![p].path = PostPath(uuid.post),
                  ![p].created = postData(uuid.post, proc[p].user, proc[p].community, now),
                  ![p].dataSha = NullSha]
    /\ UNCHANGED <<store, now, hist>>

\* saveFileToGitHub(postFilePath, postData, ...): no sha is sent.
CreatePostWrite(p) ==
    /\ proc[p].op = "createPost" /\ proc[p].pc = "write"
    /\ LET r == saveFileToGitHub(store, proc[p].path, proc[p].created, proc[p].dataSha) IN
       /\ store' = r.store
       /\ hist' = Applied(p, r, proc[p].path, proc[p].dataSha)
       /\ IF r.ok THEN proc' = [proc EXCEPT ![p].pc = "communityRead"]
          ELSE catchError(p)
    /\ UNCHANGED <<now, uuid>>

\* The read of the community document and communityData.posts.unshift(postId);
\* a missing or empty document throws.
CreatePostCommunityRead(p) ==
    /\ proc[p].op = "createPost" /\ proc[p].pc = "communityRead"
    /\ LET path == proc[p].index.communities[proc[p].community].file
           communityResult == getFileFromGitHub(store, path)
       IN  IF ~communityResult.found \/ communityResult.content = EmptyDoc
           THEN catchError(p)
           ELSE proc' = [proc EXCEPT
                   ![p].pc = "communityWrite",
                   ![p].path = path,
                   ![p].data = [communityResult.content EXCEPT
                                   !.posts = unshift(@, proc[p].post)],
                   ![p].dataSha = communityResult.sha]
    /\ UNCHANGED <<store, now, uuid, hist>>

\* The write of the community document, then index.posts[postId] = {...}.
CreatePostCommunityWrite(p) ==
    /\ proc[p].op = "createPost" /\ proc[p].pc = "communityWrite"
    /\ LET r == saveFileToGitHub(store, proc[p].path, proc[p].data, proc[p].dataSha) IN
       /\ store' = r.store
       /\ hist' = Applied(p, r, proc[p].path, proc[p].dataSha)
       /\ IF r.ok
          THEN proc' = [proc EXCEPT
                  ![p].pc = "updIndex",
                  ![p].data = EmptyDoc,
                  ![p].index = [@ EXCEPT !.posts =
                      Put(@, proc[p].post,
                          postRef(proc[p].post, proc[p].user, proc[p].community,
                                  proc[p].created.createdAt))]]
          ELSE catchError(p)
    /\ UNCHANGED <<now, uuid>>

\* updateIndex(index, indexSha); then the user's posts, if the index knows the
\* author.
CreatePostIndex(p) ==
    /\ proc[p].op = "createPost" /\ proc[p].pc = "updIndex"
    /\ LET r == updateIndex(store, proc[p].index, proc[p].indexSha, now) IN
       /\ store' = r.store
       /\ IF ~r.ok THEN catchError(p)
          ELSE IF proc[p].user \in DOMAIN proc[p].index.users
               THEN proc' = [proc EXCEPT ![p].pc = "userRead"]
               ELSE RespondJson(p, 201, proc[p].created)
       /\ hist' = Orphaned(Applied(p, r, IndexPath, proc[p].indexSha), p, r,
                           PostPath(proc[p].post), "posts", proc[p].post)
    /\ UNCHANGED <<now, uuid>>

\* The read of the author's document and userData.posts.unshift(postId).
CreatePostUserRead(p) ==
    /\ proc[p].op = "createPost" /\ proc[p].pc = "userRead"
    /\ LET path == proc[p].index.users[proc[p].user].file
           userResult == getFileFromGitHub(store, path)
       IN  IF ~userResult.found THEN RespondJson(p, 201, proc[p].created)
           ELSE IF userResult.content = EmptyDoc THEN catchError(p)
           ELSE proc' = [proc EXCEPT
                   ![p].pc = "userWrite",
                   ![p].path = path,
                   ![p].data = [userResult.content EXCEPT !.posts = unshift(@, proc[p].post)],
                   ![p].dataSha = userResult.sha]
    /\ UNCHANGED <<store, now, uuid, hist>>

CreatePostUserWrite(p) ==
    /\ proc[p].op = "createPost" /\ proc[p].pc = "userWrite"
    /\ LET r == saveFileToGitHub(store, proc[p].path, proc[p].data, proc[p].dataSha) IN
       /\ store' = r.store
       /\ hist' = Applied(p, r, proc[p].path, proc[p].dataSha)
       /\ IF r.ok THEN RespondJson(p, 201, proc[p].created) ELSE catchError(p)
    /\ UNCHANGED <<now, uuid>>

\* -------------------------------------------------------- create community
\* The names a client asks for.
RequestedNames == {"Gaming!", "ab"}

\* name.toLowerCase().replace(/[^a-z0-9_]/g, ''), on the names requested.
sanitize(name) == IF name = "Gaming!" THEN "gaming" ELSE name

\* communityName.length, on the sanitized names.
length(communityName) == IF communityName = "gaming" THEN 6 ELSE 2

\* app.post('/api/r')
StartCreateCommunity(p, limit) ==
    /\ Free(p)
    /\ hist.started < limit
    /\ \E name \in RequestedNames, creator \in Users :
          proc' = [proc EXCEPT ![p] = [IdleProc EXCEPT !.op = "createCommunity",
                                         !.pc = "getIndex",
                                         !.community = name, !.user = creator]]
    /\ hist' = [hist EXCEPT !.started = @ + 1]
    /\ UNCHANGED <<store, now, uuid>>

\* The sanitized name, its length checks, the index.communities[communityName]
\* check and the community document to be created.
CreateCommunityCheck(p) ==
    /\ proc[p].op = "createCommunity" /\ proc[p].pc = "afterIndex"
    /\ LET communityName == sanitize(proc[p].community) IN
       IF \/ length(communityName) < 3
          \/ length(communityName) > 21
          \/ communityName \in DOMAIN proc[p].index.communities
       THEN Respond(p, 400)
       ELSE proc' = [proc EXCEPT
               ![p].pc = "write",
               ![p].community = communityName,
               ![p].path = CommunityPath(communityName),
               ![p].data = communityData(communityName, proc[p].user, now),
               ![p].dataSha = NullSha]
    /\ UNCHANGED <<store, now, uuid, hist>>

\* saveFileToGitHub(communityFilePath, communityData, ...): no sha is sent;
\* then index.communities[communityName] = {...}.
CreateCommunityWrite(p) ==
    /\ proc[p].op = "createCommunity" /\ proc[p].pc = "write"
    /\ LET r == saveFileToGitHub(store, proc[p].path, proc[p].data, proc[p].dataSha) IN
       /\ store' = r.store
       /\ hist' = Applied(p, r, proc[p].path, proc[p].dataSha)
       /\ IF r.ok
          THEN proc' = [proc EXCEPT
                  ![p].pc = "updIndex",
                  ![p].index = [@ EXCEPT !.communities =
                      Put(@, proc[p].community,
                          communityRef(proc[p].community, proc[p].data.createdAt))]]
          ELSE catchError(p)
    /\ UNCHANGED <<now, uuid>>

\* updateIndex(index, indexSha) and res.status(201).json(communityData).
CreateCommunityIndex(p) ==
    /\ proc[p].op = "createCommunity" /\ proc[p].pc = "updIndex"
    /\ LET r == updateIndex(store, proc[p].index, proc[p].indexSha, now) IN
       /\ store' = r.store
       /\ IF r.ok THEN RespondJson(p, 201, proc[p].data) ELSE catchError(p)
       /\ hist' = Orphaned(Applied(p, r, IndexPath, proc[p].indexSha), p, r,
                           proc[p].path, "communities", proc[p].community)
    /\ UNCHANGED <<now, uuid>>

\* The repository after alice registered on day 0: no community, no post, and
\* bob not registered.
FoundingIndex ==
    [InitialIndex(0) EXCEPT !.users = Put(EmptyMap, "alice", userRef("alice", 0))]

FoundingStore ==
    [path \in Paths |->
        IF path = IndexPath THEN JsonBlob(FoundingIndex, 2)
        ELSE IF path = UserPath("alice") THEN JsonBlob(userData("alice", 0), 1)
        ELSE AbsentBlob]

InitCreate ==
    /\ store = FoundingStore
    /\ proc = [p \in Procs |-> IdleProc]
    /\ now = 0
    /\ uuid = [post |-> 1, comment |-> 1]
    /\ hist = InitHist

NextCreate ==
    \E p \in Procs :
        \/ StartRegister(p, MaxCreateRequests)
        \/ StartCreateCommunity(p, MaxCreateRequests)
        \/ StartCreatePost(p, MaxCreateRequests)
        \/ GetIndex(p)
        \/ RegisterCheck(p)
        \/ RegisterWrite(p)
        \/ RegisterIndex(p)
        \/ CreateCommunityCheck(p)
        \/ CreateCommunityWrite(p)
        \/ CreateCommunityIndex(p)
        \/ CreatePostCheck(p)
        \/ CreatePostWrite(p)
        \/ CreatePostCommunityRead(p)
        \/ CreatePostCommunityWrite(p)
        \/ CreatePostIndex(p)
        \/ CreatePostUserRead(p)
        \/ CreatePostUserWrite(p)

SpecCreate == InitCreate /\ [][NextCreate]_vars

\* The handlers that write a community document, from the same repository.
NextMembers ==
    \E p \in Procs :
        \/ StartCreateCommunity(p, MaxMemberRequests)
        \/ StartJoin(p, MaxMemberRequests)
        \/ StartUpdateCommunity(p, MaxMemberRequests)
        \/ StartCreatePost(p, MaxMemberRequests)
        \/ GetIndex(p)
        \/ CreateCommunityCheck(p)
        \/ CreateCommunityWrite(p)
        \/ CreateCommunityIndex(p)
        \/ JoinRead(p)
        \/ JoinWrite(p)
        \/ JoinIndex(p)
        \/ UpdateCommunityRead(p)
        \/ UpdateCommunityWrite(p)
        \/ UpdateCommunityIndex(p)
        \/ CreatePostCheck(p)
        \/ CreatePostWrite(p)
        \/ CreatePostCommunityRead(p)
        \/ CreatePostCommunityWrite(p)
        \/ CreatePostIndex(p)
        \/ CreatePostUserRead(p)
        \/ CreatePostUserWrite(p)

SpecMembers == InitCreate /\ [][NextMembers]_vars

\* ------------------------------------------------------ the Post component
\* useAuth(): the user logged in on each client.
SessionUser(p) == IF p = "w1" THEN "alice" ELSE "bob"

\* The two vote buttons.
Buttons == {1, -1}

\* The mutant of toggle: the button's value is sent as it is.
toggle_asClicked(userVote, vote) == vote

\* const newVote = userVote === vote ? 0 : vote
toggle(userVote, vote) == IF userVote = vote THEN 0 ELSE vote

\* function Post({ post }): the component is rendered for a stored post, with
\* useState(post.score) and useState(0).
MountPost(p) ==
    /\ proc[p].pc \in {"idle", "done"}
    /\ proc[p].viewed = NullId
    /\ \E postId \in StoredPosts :
          proc' = [proc EXCEPT ![p] = [IdleProc EXCEPT !.viewed = postId, !.userVote = 0,
                                         !.score = StoredPost(postId).score]]
    /\ UNCHANGED <<store, now, uuid, hist>>

\* The status of a click that has not been answered.
Pending == 0

\* The history with the answer to the last click of user u.
Answer(clicks, u, status) ==
    LET last == CHOOSE k \in 1..Len(clicks) :
                    /\ clicks[k].user = u
                    /\ \A j \in (k + 1)..Len(clicks) : clicks[j].user # u
    IN  [clicks EXCEPT ![last].status = status]

\* handleVote(vote) up to the fetch.
ClickVote(p, limit) ==
    /\ proc[p].pc = "idle"
    /\ proc[p].viewed # NullId
    /\ hist.started < limit
    /\ \E vote \in Buttons :
          LET newVote == toggle(proc[p].userVote, vote) IN
          /\ proc' = [proc EXCEPT ![p].op = "vote", ![p].pc = "getIndex",
                                  ![p].user = SessionUser(p), ![p].post = proc[p].viewed,
                                  ![p].vote = newVote, ![p].newVote = newVote]
          /\ hist' = [hist EXCEPT !.started = @ + 1,
                                  !.clicks = Append(@, [user |-> SessionUser(p),
                                                        post |-> proc[p].viewed,
                                                        vote |-> vote,
                                                        userVote |-> proc[p].userVote,
                                                        sent |-> newVote,
                                                        status |-> Pending])]
    /\ UNCHANGED <<store, now, uuid>>

\* handleVote(vote) after the fetch: if (response.ok) { setScore; setUserVote }.
ClickAnswered(p) ==
    /\ proc[p].op = "vote" /\ proc[p].pc = "done"
    /\ proc[p].viewed # NullId
    /\ proc' = [proc EXCEPT
          ![p] = IF proc[p].status = 200
                 THEN [IdleProc EXCEPT !.viewed = proc[p].viewed,
                                       !.userVote = proc[p].newVote,
                                       !.score = proc[p].body.score]
                 ELSE [IdleProc EXCEPT !.viewed = proc[p].viewed,
                                       !.userVote = proc[p].userVote,
                                       !.score = proc[p].score]]
    /\ hist' = [hist EXCEPT !.clicks = Answer(@, SessionUser(p), proc[p].status)]
    /\ UNCHANGED <<store, now, uuid>>

\* The seeded repository; alice or bob posts, and each client shows a post and
\* votes on it with the buttons.
NextClient ==
    \E p \in Procs :
        \/ StartCreatePost(p, MaxClientRequests)
        \/ GetIndex(p)
        \/ CreatePostCheck(p)
        \/ CreatePostWrite(p)
        \/ CreatePostCommunityRead(p)
        \/ CreatePostCommunityWrite(p)
        \/ CreatePostIndex(p)
        \/ CreatePostUserRead(p)
        \/ CreatePostUserWrite(p)
        \/ MountPost(p)
        \/ ClickVote(p, MaxClientRequests)
        \/ VoteRead(p)
        \/ VoteWrite(p)
        \/ ClickAnswered(p)

SpecClient == InitPost /\ [][NextClient]_vars

\* ------------------------------------------------------ dual-path reads
\* A user name that is in no index and has no file.
NoUser == "nobody"

\* index.users[author]?.avatarUrl || ''
avatarOf(index, username) ==
    IF username \in DOMAIN index.users THEN index.users[username].avatarUrl ELSE ""

\* index.communities[community]?.iconUrl || ''
iconOf(index, community) ==
    IF community \in DOMAIN index.communities THEN index.communities[community].iconUrl ELSE ""

RECURSIVE injectAvatars(_, _)
injectAvatars(comments, index) ==
    [k \in 1..Len(comments) |->
        [authorAvatar |-> avatarOf(index, comments[k].author)]
            @@ [comments[k] EXCEPT !.replies = injectAvatars(@, index)]]

\* The post as get post answers it; a document without fields gets the two
\* empty strings and nothing else.
decoratePost(post, index) ==
    IF post = EmptyDoc THEN [authorAvatar |-> "", communityIcon |-> ""] @@ EmptyDoc
    ELSE [authorAvatar |-> avatarOf(index, post.author),
          communityIcon |-> iconOf(index, post.community)]
             @@ [post EXCEPT !.comments = injectAvatars(@, index)]

\* The reads get user makes to fill in the user's posts and comments: one per
\* entry whose post the index lists.
populateReads(user, index) ==
    IF user = EmptyDoc THEN << >>
    ELSE SelectSeq([k \in 1..Len(user.posts) |->
                       [postId |-> user.posts[k], list |-> "posts"]]
                   \o [k \in 1..Len(user.comments) |->
                       [postId |-> user.comments[k].postId, list |-> "comments"]],
                   LAMBDA e : e.postId \in DOMAIN index.posts)

ResolveOps == {"getPost", "getUser", "getCommunity"}

\* The answer to a dual-path read, as the history keeps it: what was stored at
\* the direct path when it was fetched, which fetch gave the document, what the
\* index fallback came to, and whether the request wrote index.json.
Resolved(p, directKind, used, fallback, status) ==
    [hist EXCEPT !.resolved = @ \cup
        {[op |-> proc[p].op, direct |-> proc[p].direct, directKind |-> directKind,
          used |-> used, fallback |-> fallback, status |-> status,
          wrote |-> proc[p].healSha # NullSha, dropped |-> proc[p].dropped]}]

\* app.get('/api/r/:community/posts/:postId')
StartGetPost(p, limit) ==
    /\ Free(p)
    /\ hist.started < limit
    /\ \E postId \in KnownPosts :
          proc' = [proc EXCEPT ![p] = [IdleProc EXCEPT !.op = "getPost", !.pc = "direct",
                                         !.post = postId, !.direct = PostPath(postId)]]
    /\ hist' = [hist EXCEPT !.started = @ + 1]
    /\ UNCHANGED <<store, now, uuid>>

\* app.get('/api/u/:username')
StartGetUser(p, limit) ==
    /\ Free(p)
    /\ hist.started < limit
    /\ \E username \in {"alice", NoUser} :
          proc' = [proc EXCEPT ![p] = [IdleProc EXCEPT !.op = "getUser", !.pc = "direct",
                                         !.user = username, !.direct = UserPath(username)]]
    /\ hist' = [hist EXCEPT !.started = @ + 1]
    /\ UNCHANGED <<store, now, uuid>>

\* app.get('/api/r/:community')
StartGetCommunity(p, limit) ==
    /\ Free(p)
    /\ hist.started < limit
    /\ \E community \in Communities \cup {NoCommunity} :
          proc' = [proc EXCEPT ![p] = [IdleProc EXCEPT !.op = "getCommunity", !.pc = "direct",
                                         !.community = community,
                                         !.direct = CommunityPath(community),
                                         !.dropped = hist.dropped]]
    /\ hist' = [hist EXCEPT !.started = @ + 1]
    /\ UNCHANGED <<store, now, uuid>>

\* getDirectWithFallback: the fetch at the direct path.  On a hit get community
\* answers the document; get post and get user read the index for the avatars
\* first.  Otherwise the fallback starts with its getIndex.
ResolveDirect(p) ==
    /\ proc[p].op \in ResolveOps /\ proc[p].pc = "direct"
    /\ LET result == getFileFromGitHub(store, proc[p].direct)
           directKind == BlobKind(store, proc[p].direct)
       IN  IF ~directHit(result)
           THEN /\ proc' = [proc EXCEPT ![p].pc = "getIndex", ![p].directKind = directKind]
                /\ UNCHANGED hist
           ELSE IF proc[p].op = "getCommunity"
                THEN /\ RespondJson(p, 200, result.content)
                     /\ hist' = Resolved(p, directKind, "direct", "none", 200)
                ELSE /\ proc' = [proc EXCEPT ![p].pc = "getIndex", ![p].used = "direct",
                                             ![p].directKind = directKind,
                                             ![p].data = result.content,
                                             ![p].dataSha = result.sha]
                     /\ UNCHANGED hist
    /\ UNCHANGED <<store, now, uuid>>

\* The key the fallback looks up and the map of the index it looks in.
ResolveKey(p) ==
    IF proc[p].op = "getPost" THEN proc[p].post
    ELSE IF proc[p].op = "getUser" THEN proc[p].user ELSE proc[p].community

ResolveMap(p) ==
    IF proc[p].op = "getPost" THEN proc[p].index.posts
    ELSE IF proc[p].op = "getUser" THEN proc[p].index.users ELSE proc[p].index.communities

\* The fallback after its getIndex: no entry gives null, and the handler
\* answers 404.
ResolveLookup(p) ==
    /\ proc[p].op \in ResolveOps /\ proc[p].pc = "afterIndex" /\ proc[p].used = "none"
    /\ IF ResolveKey(p) \notin DOMAIN ResolveMap(p)
       THEN /\ Respond(p, 404)
            /\ hist' = Resolved(p, proc[p].directKind, "none", "noEntry", 404)
       ELSE /\ proc' = [proc EXCEPT ![p].pc = "indexed",
                                    ![p].path = ResolveMap(p)[ResolveKey(p)].file]
            /\ UNCHANGED hist
    /\ UNCHANGED <<store, now, uuid>>

\* The fallback's fetch at the path the index gives: null gives 404; any file
\* stored there, parseable or not, is the document.
ResolveIndexed(p) ==
    /\ proc[p].op \in ResolveOps /\ proc[p].pc = "indexed"
    /\ LET result == getFileFromGitHub(store, proc[p].path)
           fallback == IF result.content = EmptyDoc THEN "empty" ELSE "found"
       IN  IF ~result.found
           THEN /\ Respond(p, 404)
                /\ hist' = Resolved(p, proc[p].directKind, "none", "missing", 404)
           ELSE IF proc[p].op = "getCommunity"
                THEN /\ RespondJson(p, 200, result.content)
                     /\ hist' = Resolved(p, proc[p].directKind, "index", fallback, 200)
                ELSE /\ proc' = [proc EXCEPT ![p].pc = "getIndex", ![p].used = "index",
                                             ![p].data = result.content,
                                             ![p].dataSha = result.sha]
                     /\ UNCHANGED hist
    /\ UNCHANGED <<store, now, uuid>>

\* How the index fallback ended for a document the handler holds.
FallbackOf(p) ==
    IF proc[p].used = "direct" THEN "none"
    ELSE IF proc[p].data = EmptyDoc THEN "empty" ELSE "found"

\* get post and get user after the getIndex for the avatars: get post answers;
\* get user goes on to read the posts its lists name.
ResolveDecorate(p) ==
    /\ proc[p].op \in {"getPost", "getUser"}
    /\ proc[p].pc = "afterIndex" /\ proc[p].used # "none"
    /\ LET reads == populateReads(proc[p].data, proc[p].index) IN
       IF proc[p].op = "getPost"
       THEN /\ RespondJson(p, 200, decoratePost(proc[p].data, proc[p].index))
            /\ hist' = Resolved(p, proc[p].directKind, proc[p].used, FallbackOf(p), 200)
       ELSE IF reads = << >>
            THEN /\ RespondJson(p, 200, proc[p].data)
                 /\ hist' = Resolved(p, proc[p].directKind, proc[p].used, FallbackOf(p), 200)
            ELSE /\ proc' = [proc EXCEPT ![p].pc = "populate", ![p].scan = reads]
                 /\ UNCHANGED hist
    /\ UNCHANGED <<store, now, uuid>>

\* One read of get user's loops; findComment on a post without fields throws.
ResolvePopulate(p) ==
    /\ proc[p].op = "getUser" /\ proc[p].pc = "populate"
    /\ LET e == Head(proc[p].scan)
           postResult == getFileFromGitHub(store, proc[p].index.posts[e.postId].file)
       IN  IF postResult.found /\ postResult.content = EmptyDoc /\ e.list = "comments"
           THEN catchError(p) /\ UNCHANGED hist
           ELSE IF Tail(proc[p].scan) # << >>
                THEN proc' = [proc EXCEPT ![p].scan = Tail(@)] /\ UNCHANGED hist
                ELSE /\ RespondJson(p, 200, proc[p].data)
                     /\ hist' = Resolved(p, proc[p].directKind, proc[p].used,
                                         FallbackOf(p), 200)
    /\ UNCHANGED <<store, now, uuid>>

\* A stored file, the same path with nothing stored, and the same path with a
\* payload that does not parse.
Variants(blob) ==
    {blob, AbsentBlob, [present |-> TRUE, kind |-> "corrupt", doc |-> EmptyDoc, sha |-> blob.sha]}

\* The seeded repository (alice has one comment on post 1) with index.json,
\* post 1, r/gaming and alice's document each stored, missing or unparseable.
ResolveStores ==
    LET seed == [SeedStore EXCEPT
                    ![UserPath("alice")].doc.comments = <<[postId |-> 1, commentId |-> 1]>>,
                    ![PostPath(1)].doc =
                        insertComment(@, newComment(1, "alice", NullId, 0)).post]
    IN  {[seed EXCEPT ![IndexPath] = i, ![PostPath(1)] = b,
                      ![CommunityPath("gaming")] = c, ![UserPath("alice")] = u] :
            i \in Variants(seed[IndexPath]), b \in Variants(seed[PostPath(1)]),
            c \in Variants(seed[CommunityPath("gaming")]),
            u \in Variants(seed[UserPath("alice")])}

InitResolve ==
    /\ store \in ResolveStores
    /\ proc = [p \in Procs |-> IdleProc]
    /\ now = 0
    /\ uuid = [post |-> 2, comment |-> 2]
    /\ hist = InitHist

NextResolve ==
    \E p \in Procs :
        \/ StartGetPost(p, MaxResolveRequests)
        \/ StartGetUser(p, MaxResolveRequests)
        \/ StartGetCommunity(p, MaxResolveRequests)
        \/ ResolveDirect(p)
        \/ GetIndex(p)
        \/ HealIndex(p)
        \/ ResolveLookup(p)
        \/ ResolveIndexed(p)
        \/ ResolveDecorate(p)
        \/ ResolvePopulate(p)

SpecResolve == InitResolve /\ [][NextResolve]_vars

\* ------------------------------------------- delete and list communities
\* The mutant of dropCommunity: the entry stays.
dropCommunity_kept(index, community) == index

\* delete index.communities[community]
dropCommunity(index, community) == [index EXCEPT !.communities = Remove(@, community)]

\* BAD_WORDS.some(word => lower.includes(word)): the names that hold one.
hasProfanity(text) == text \in {"hell"}

\* app.delete('/api/r/:community'): anyone but the super admin is answered 403
\* before any store call.
StartDeleteCommunity(p, limit) ==
    /\ Free(p)
    /\ hist.started < limit
    /\ \E username \in {SuperAdmin, "alice"}, community \in Communities \cup {NoCommunity} :
          proc' = [proc EXCEPT ![p] =
                      IF username # SuperAdmin
                      THEN [IdleProc EXCEPT !.op = "deleteCommunity", !.pc = "done",
                                            !.status = 403]
                      ELSE [IdleProc EXCEPT !.op = "deleteCommunity", !.pc = "getIndex",
                                            !.user = username, !.community = community]]
    /\ hist' = [hist EXCEPT !.started = @ + 1]
    /\ UNCHANGED <<store, now, uuid>>

\* index.communities[community] check, the delete of the entry and
\* updateIndex(index, indexSha).
DeleteCommunityIndex(p) ==
    /\ proc[p].op = "deleteCommunity" /\ proc[p].pc = "afterIndex"
    /\ IF proc[p].community \notin DOMAIN proc[p].index.communities
       THEN Respond(p, 404) /\ UNCHANGED <<store, hist>>
       ELSE LET r == updateIndex(store, dropCommunity(proc[p].index, proc[p].community),
                                 proc[p].indexSha, now)
            IN  /\ store' = r.store
                /\ IF r.ok THEN RespondJson(p, 200, [success |-> TRUE]) ELSE catchError(p)
                /\ hist' = [Applied(p, r, IndexPath, proc[p].indexSha) EXCEPT
                               !.dropped = IF r.ok THEN @ \cup {proc[p].community} ELSE @]
    /\ UNCHANGED <<now, uuid>>

\* app.get('/api/communities')
StartListCommunities(p, limit) ==
    /\ Free(p)
    /\ hist.started < limit
    /\ proc' = [proc EXCEPT ![p] = [IdleProc EXCEPT !.op = "listCommunities",
                                                    !.pc = "getIndex",
                                                    !.dropped = hist.dropped]]
    /\ hist' = [hist EXCEPT !.started = @ + 1]
    /\ UNCHANGED <<store, now, uuid>>

\* Object.entries(index.communities), as a list.
RECURSIVE entriesOf(_)
entriesOf(names) ==
    IF names = {} THEN << >>
    ELSE LET name == CHOOSE x \in names : TRUE IN <<name>> \o entriesOf(names \ {name})

\* What communities.push adds for a community document; a document without
\* fields gives an element without a name.
summaryOf(data) ==
    IF data = EmptyDoc THEN [name |-> "undefined", memberCount |-> -1]
    ELSE [name |-> data.name, memberCount |-> data.memberCount]

\* The answer of the listing, as the history keeps it: the names listed and
\* the communities deleted before the request started.
ListingAnswered(p, communities) ==
    [hist EXCEPT !.listings = @ \cup
        {[names |-> {communities[j].name : j \in 1..Len(communities)},
          dropped |-> proc[p].dropped]}]

\* The loop over the entries of the index, up to its first read.
ListCommunitiesPlan(p) ==
    /\ proc[p].op = "listCommunities" /\ proc[p].pc = "afterIndex"
    /\ LET names == SelectSeq(entriesOf(DOMAIN proc[p].index.communities),
                              LAMBDA name : ~hasProfanity(name))
       IN  IF names = << >>
           THEN RespondJson(p, 200, << >>) /\ hist' = ListingAnswered(p, << >>)
           ELSE /\ proc' = [proc EXCEPT ![p].pc = "list", ![p].scan = names,
                                        ![p].posts = << >>]
                /\ UNCHANGED hist
    /\ UNCHANGED <<store, now, uuid>>

\* One read of the loop: getFileFromGitHub(meta.file) and the push.
ListCommunitiesRead(p) ==
    /\ proc[p].op = "listCommunities" /\ proc[p].pc = "list"
    /\ LET meta == proc[p].index.communities[Head(proc[p].scan)]
           communityResult == getFileFromGitHub(store, meta.file)
           communities == IF communityResult.found
                          THEN Append(proc[p].posts, summaryOf(communityResult.content))
                          ELSE proc[p].posts
       IN  IF Tail(proc[p].scan) # << >>
           THEN /\ proc' = [proc EXCEPT ![p].scan = Tail(@), ![p].posts = communities]
                /\ UNCHANGED hist
           ELSE RespondJson(p, 200, communities) /\ hist' = ListingAnswered(p, communities)
    /\ UNCHANGED <<store, now, uuid>>

\* The seeded repository, and the same with an r/gaming document that does
\* not parse.
DropStores ==
    {SeedStore,
     [SeedStore EXCEPT ![CommunityPath("gaming")] =
        [present |-> TRUE, kind |-> "corrupt", doc |-> EmptyDoc, sha |-> 2]]}

InitDrop ==
    /\ store \in DropStores
    /\ proc = [p \in Procs |-> IdleProc]
    /\ now = 0
    /\ uuid = [post |-> 2, comment |-> 1]
    /\ hist = InitHist

NextDrop ==
    \E p \in Procs :
        \/ StartDeleteCommunity(p, MaxDropRequests)
        \/ StartListCommunities(p, MaxDropRequests)
        \/ StartGetCommunity(p, MaxDropRequests)
        \/ StartJoin(p, MaxDropRequests)
        \/ GetIndex(p)
        \/ DeleteCommunityIndex(p)
        \/ ListCommunitiesPlan(p)
        \/ ListCommunitiesRead(p)
        \/ ResolveDirect(p)
        \/ ResolveLookup(p)
        \/ ResolveIndexed(p)
        \/ JoinRead(p)
        \/ JoinWrite(p)
        \/ JoinIndex(p)

SpecDrop == InitDrop /\ [][NextDrop]_vars

\* ------------------------------------------- the requests that start the job
\* const { voters, ...safePost } = postResult.content, with the avatar and the
\* icon of the index.
safePost(post, index) ==
    IF post = EmptyDoc THEN [authorAvatar |-> "", communityIcon |-> ""] @@ EmptyDoc
    ELSE [authorAvatar |-> avatarOf(index, post.author),
          communityIcon |-> iconOf(index, post.community)]
             @@ [f \in DOMAIN post \ {"voters"} |-> post[f]]

\* createdAt of a feed entry; a document without fields has none.
createdAtOf(post) == IF "createdAt" \in DOMAIN post THEN post.createdAt ELSE 0

\* posts.sort((a, b) => new Date(b.createdAt) - new Date(a.createdAt)): newest
\* first, entries of one date in the order they had.
RECURSIVE sortNew(_)
sortNew(posts) ==
    IF posts = << >> THEN << >>
    ELSE LET rest == sortNew(Tail(posts))
             before == SelectSeq(rest, LAMBDA x : createdAtOf(x) > createdAtOf(Head(posts)))
             after == SelectSeq(rest, LAMBDA x : createdAtOf(x) <= createdAtOf(Head(posts)))
         IN  before \o <<Head(posts)>> \o after

\* cleanupOldPosts() as a request starts it: the job runs beside the handler.
StartedJob(run) == [IdleProc EXCEPT !.op = "cleanup", !.pc = "getConfig", !.run = run]

\* app.get('/api/posts') with the default query; one time in ten it starts the
\* cleanup job before its own getIndex.
StartFeed(p, limit) ==
    /\ Free(p)
    /\ hist.started < limit
    /\ LET run == hist.started + 1
           feed == [IdleProc EXCEPT !.op = "feed", !.pc = "getIndex", !.run = run,
                                    !.viewed = proc[p].viewed,
                                    !.userVote = proc[p].userVote,
                                    !.score = proc[p].score,
                                    !.newVote = proc[p].newVote]
       IN  \/ proc' = [proc EXCEPT ![p] = feed]
           \/ \E q \in Procs \ {p} :
                 /\ Free(q)
                 /\ proc' = [proc EXCEPT ![p] = feed, ![q] = StartedJob(run)]
    /\ hist' = [hist EXCEPT !.started = @ + 1]
    /\ UNCHANGED <<store, now, uuid>>

\* The loop over Object.entries(index.posts), up to its first read.
FeedPlan(p) ==
    /\ proc[p].op = "feed" /\ proc[p].pc = "afterIndex"
    /\ LET ids == Entries(DOMAIN proc[p].index.posts) IN
       IF ids = << >>
       THEN RespondJson(p, 200, << >>)
       ELSE proc' = [proc EXCEPT ![p].pc = "read", ![p].scan = ids]
    /\ hist' = Foreground(hist, p, FALSE)
    /\ UNCHANGED <<store, now, uuid>>

\* The read of one post: a missing file is left out; after the last one the
\* sort and the answer.
FeedRead(p) ==
    /\ proc[p].op = "feed" /\ proc[p].pc = "read"
    /\ LET postId == Head(proc[p].scan)
           postResult == getFileFromGitHub(store, proc[p].index.posts[postId].file)
           posts == IF postResult.found
                    THEN Append(proc[p].posts, safePost(postResult.content, proc[p].index))
                    ELSE proc[p].posts
       IN  IF Tail(proc[p].scan) # << >>
           THEN proc' = [proc EXCEPT ![p].scan = Tail(@), ![p].posts = posts]
           ELSE RespondJson(p, 200, sortNew(posts))
    /\ hist' = Foreground(hist, p, FALSE)
    /\ UNCHANGED <<store, now, uuid>>

\* The requests made to the config route: by the super admin or by a user, with
\* retentionDays missing (0) or 10.
ConfigDays == {0, 10}

\* app.post('/api/admin/config'): the two checks, made before any store call.
StartConfig(p, limit) ==
    /\ Free(p)
    /\ hist.started < limit
    /\ \E username \in {SuperAdmin, "alice"}, retentionDays \in ConfigDays :
          LET request == [IdleProc EXCEPT !.op = "config", !.user = username,
                                          !.retentionDays = retentionDays,
                                          !.run = hist.started + 1,
                                          !.viewed = proc[p].viewed,
                                          !.userVote = proc[p].userVote,
                                          !.score = proc[p].score,
                                          !.newVote = proc[p].newVote]
          IN  proc' = [proc EXCEPT ![p] =
                  IF username # SuperAdmin
                  THEN [request EXCEPT !.pc = "done", !.status = 403]
                  ELSE IF retentionDays = 0
                  THEN [request EXCEPT !.pc = "done", !.status = 400]
                  ELSE [request EXCEPT !.pc = "write"]]
    /\ hist' = [hist EXCEPT !.started = @ + 1]
    /\ UNCHANGED <<store, now, uuid>>

\* saveConfig (no sha is sent), then cleanupOldPosts() is started and the
\* request answered; the job takes a handler slot that is free.
ConfigWrite(p) ==
    /\ proc[p].op = "config" /\ proc[p].pc = "write"
    /\ LET config == [retentionDays |-> proc[p].retentionDays]
           r == saveFileToGitHub(store, ConfigPath, config, NullSha)
       IN  /\ store' = r.store
           /\ IF ~r.ok THEN catchError(p)
              ELSE \E q \in Procs \ {p} :
                      /\ Free(q)
                      /\ proc' = [proc EXCEPT
                            ![p] = [IdleProc EXCEPT !.op = "config", !.pc = "done",
                                                    !.status = 200, !.body = config,
                                                    !.viewed = proc[p].viewed,
                                                    !.userVote = proc[p].userVote,
                                                    !.score = proc[p].score,
                                                    !.newVote = proc[p].newVote],
                            ![q] = StartedJob(proc[p].run)]
           /\ hist' = Foreground(Applied(p, r, ConfigPath, NullSha), p, ~r.ok)
    /\ UNCHANGED <<now, uuid>>

\* The repository of InitRetention, or the same files without index.json.
TriggerStores ==
    RetentionStores \cup {[st EXCEPT ![IndexPath] = AbsentBlob] : st \in RetentionStores}

InitTrigger ==
    /\ store \in TriggerStores
    /\ proc = [p \in Procs |-> IdleProc]
    /\ now = 20
    /\ uuid = [post |-> 3, comment |-> 1]
    /\ hist = InitHist

NextTrigger ==
    \E p \in Procs :
        \/ StartFeed(p, MaxTriggerRequests)
        \/ StartConfig(p, MaxTriggerRequests)
        \/ StartJoin(p, MaxTriggerRequests)
        \/ GetIndex(p)
        \/ HealIndex(p)
        \/ FeedPlan(p)
        \/ FeedRead(p)
        \/ ConfigWrite(p)
        \/ CleanupConfig(p)
        \/ CleanupPlan(p)
        \/ CleanupCheck(p)
        \/ CleanupDeleteRead(p)
        \/ CleanupDeleteFile(p)
        \/ CleanupIndex(p)
        \/ JoinRead(p)
        \/ JoinWrite(p)
        \/ JoinIndex(p)

SpecTrigger == InitTrigger /\ [][NextTrigger]_vars

\* ------------------------------------------------------------- delete post
\* The mutant of isModerator: every user passes for a moderator.
isModerator_any(username, community) == TRUE

\* communityData.moderators && communityData.moderators.includes(username)
isModerator(username, community) ==
    /\ community # EmptyDoc
    /\ username \in Range(community.moderators)

\* username === 'timco', or postData.author === username
isOwner(username, post) ==
    \/ username = SuperAdmin
    \/ post # EmptyDoc /\ post.author = username

\* Mark as deleted: title, content and author are overwritten.
tombstone(post) ==
    [title |-> "[Deleted by User/Mod]", content |-> "[removed]", author |-> "[deleted]"]
        @@ post

\* Whether the documents stored make a user the author of a post, a moderator
\* of the post's community or the super admin.
Permitted(st, username, postId) ==
    LET post == getFileFromGitHub(st, PostPath(postId))
        community == IF directHit(post) /\ post.content.community \in Communities
                     THEN getFileFromGitHub(st, CommunityPath(post.content.community)).content
                     ELSE EmptyDoc
    IN  \/ username = SuperAdmin
        \/ directHit(post) /\ post.content.author = username
        \/ community # EmptyDoc /\ username \in Range(community.moderators)

\* The answer to a delete as the history keeps it: who asked, the status, the
\* document stored before and after the answering step, whether the index
\* lists the post, and whether the actor was permitted when the handler read
\* the post.
Moderated(h, p, status, st) ==
    [h EXCEPT !.removals = @ \cup
        {[actor |-> proc[p].user, post |-> proc[p].post, status |-> status,
          before |-> getFileFromGitHub(store, PostPath(proc[p].post)).content,
          after |-> getFileFromGitHub(st, PostPath(proc[p].post)).content,
          listed |-> Indexed(st, "posts", proc[p].post),
          permitted |-> proc[p].existed]}]

\* app.delete('/api/posts/:postId')
StartDeletePost(p, limit) ==
    /\ Free(p)
    /\ hist.started < limit
    /\ \E postId \in KnownPosts, username \in Users \cup {SuperAdmin} :
          proc' = [proc EXCEPT ![p] = [IdleProc EXCEPT !.op = "deletePost", !.pc = "getIndex",
                                         !.post = postId, !.user = username,
                                         !.viewed = proc[p].viewed,
                                         !.userVote = proc[p].userVote,
                                         !.score = proc[p].score,
                                         !.newVote = proc[p].newVote]]
    /\ hist' = [hist EXCEPT !.started = @ + 1]
    /\ UNCHANGED <<store, now, uuid>>

\* index.posts[postId] check, the read of the post and the first two
\* permission tests; a missing file throws.
DeletePostRead(p) ==
    /\ proc[p].op = "deletePost" /\ proc[p].pc = "afterIndex"
    /\ IF proc[p].post \notin DOMAIN proc[p].index.posts
       THEN Respond(p, 404)
       ELSE LET path == proc[p].index.posts[proc[p].post].file
                postResult == getFileFromGitHub(store, path)
                post == postResult.content
            IN  IF ~postResult.found THEN catchError(p)
                ELSE IF isOwner(proc[p].user, post)
                THEN proc' = [proc EXCEPT ![p].pc = "write", ![p].path = path,
                                          ![p].data = tombstone(post),
                                          ![p].dataSha = postResult.sha,
                                          ![p].existed =
                                              Permitted(store, proc[p].user, proc[p].post)]
                ELSE IF post = EmptyDoc
                        \/ post.community \notin DOMAIN proc[p].index.communities
                THEN catchError(p)
                ELSE proc' = [proc EXCEPT ![p].pc = "moderators", ![p].path = path,
                                          ![p].data = post,
                                          ![p].dataSha = postResult.sha,
                                          ![p].existed =
                                              Permitted(store, proc[p].user, proc[p].post)]
    /\ UNCHANGED <<store, now, uuid, hist>>

\* The read of the community and the moderator test; a missing community file
\* throws.
DeletePostModerators(p) ==
    /\ proc[p].op = "deletePost" /\ proc[p].pc = "moderators"
    /\ LET communityResult ==
               getFileFromGitHub(store,
                                 proc[p].index.communities[proc[p].data.community].file)
       IN  IF ~communityResult.found
           THEN catchError(p) /\ UNCHANGED hist
           ELSE IF isModerator(proc[p].user, communityResult.content)
           THEN /\ proc' = [proc EXCEPT ![p].pc = "write",
                                        ![p].data = tombstone(proc[p].data)]
                /\ UNCHANGED hist
           ELSE /\ Respond(p, 403)
                /\ hist' = Moderated(hist, p, 403, store)
    /\ UNCHANGED <<store, now, uuid>>

\* saveFileToGitHub(postFilePath, postData, ..., postResult.sha)
DeletePostWrite(p) ==
    /\ proc[p].op = "deletePost" /\ proc[p].pc = "write"
    /\ LET r == saveFileToGitHub(store, proc[p].path, proc[p].data, proc[p].dataSha) IN
       /\ store' = r.store
       /\ IF r.ok THEN Respond(p, 200) ELSE catchError(p)
       /\ hist' = Moderated(Applied(p, r, proc[p].path, proc[p].dataSha), p,
                            IF r.ok THEN 200 ELSE 500, r.store)
    /\ UNCHANGED <<now, uuid>>

\* The seeded repository with a second post, made by bob in r/gaming, that
\* alice commented.
ModerateStore ==
    [SeedStore EXCEPT
        ![IndexPath] = JsonBlob([SeedIndex EXCEPT
                                   !.posts = Put(@, 2, postRef(2, "bob", "gaming", 0))], 6),
        ![PostPath(2)] = JsonBlob([postData(2, "bob", "gaming", 0) EXCEPT
                                      !.comments = <<newComment(1, "alice", NullId, 0)>>,
                                      !.commentCount = 1], 2),
        ![CommunityPath("gaming")] =
            JsonBlob([communityData("gaming", "alice", 0) EXCEPT !.posts = <<2, 1>>], 3),
        ![UserPath("bob")] = JsonBlob([userData("bob", 0) EXCEPT !.posts = <<2>>], 2),
        ![UserPath("alice")] =
            JsonBlob([userData("alice", 0) EXCEPT
                         !.posts = <<1>>,
                         !.comments = <<[postId |-> 2, commentId |-> 1]>>], 3)]

InitModerate ==
    /\ store = ModerateStore
    /\ proc = [p \in Procs |-> IdleProc]
    /\ now = 0
    /\ uuid = [post |-> 3, comment |-> 2]
    /\ hist = InitHist

NextModerate ==
    \E p \in Procs :
        \/ StartDeletePost(p, MaxModerateRequests)
        \/ GetIndex(p)
        \/ DeletePostRead(p)
        \/ DeletePostModerators(p)
        \/ DeletePostWrite(p)
        \/ StartVote(p, MaxModerateRequests)
        \/ VoteRead(p)
        \/ VoteWrite(p)

SpecModerate == InitModerate /\ [][NextModerate]_vars

\* One handler at a time; every comment is alice's.  The first two may be
\* posted at top level; every one may be posted under the comment created
\* last or under an id that matches nothing.
ChainParents ==
    {MissingId}
        \cup {i \in {NullId} : uuid.comment <= 2}
        \cup {i \in {uuid.comment - 1} : i >= 1}

StartChainComment(p) ==
    /\ uuid.comment <= MaxChain
    /\ StartComment(p, MaxChain, {"alice"}, ChainParents)

NextDepth ==
    \/ StartChainComment("w1")
    \/ GetIndex("w1")
    \/ CommentRead("w1")
    \/ CommentWrite("w1")
    \/ CommentUserRead("w1")
    \/ CommentUserWrite("w1")

SpecDepth == InitPost /\ [][NextDepth]_vars

\* ----------------------------------------------------------------- claims

\* C1: in every stored post, after every vote, score = upvotes - downvotes.
C1_ScoreIsDifference ==
    \A i \in StoredPosts : StoredPost(i).score = StoredPost(i).upvotes - StoredPost(i).downvotes

C1_Witness ==
    \E i \in StoredPosts : StoredPost(i).downvotes = 1 /\ StoredPost(i).score = -1

\* C9: a reply whose parent is located at depth 0..10 is inserted; one whose
\* parent is at depth 11, or whose parentId matches no node, is rejected (404).
C9_DepthLimit ==
    /\ hist.reply.depth \in 0..MAX_NESTING_DEPTH => hist.reply.found
    /\ hist.reply.depth = -1 \/ hist.reply.depth > MAX_NESTING_DEPTH => ~hist.reply.found

C9_Witness ==
    /\ hist.reply.depth = MAX_NESTING_DEPTH + 1
    /\ ~hist.reply.found
    /\ \E i \in StoredPosts : Height(StoredPost(i).comments) = MAX_NESTING_DEPTH + 1

\* C10: commentCount of every stored post is the number of nodes of its comment
\* forest, and the posts' counts add up to the insertions that were written.
RECURSIVE SumCounts(_)
SumCounts(ids) ==
    IF ids = {} THEN 0
    ELSE LET i == CHOOSE x \in ids : TRUE IN StoredPost(i).commentCount + SumCounts(ids \ {i})

C10_CommentCount ==
    /\ \A i \in StoredPosts : StoredPost(i).commentCount = CountNodes(StoredPost(i).comments)
    /\ SumCounts(StoredPosts) = hist.inserted

C10_Witness ==
    \E i \in StoredPosts :
        /\ Len(StoredPost(i).comments) >= 1
        /\ Len(StoredPost(i).comments[1].replies) >= 1
        /\ StoredPost(i).commentCount = 2
        /\ StoredPost(i).downvotes = 1
        /\ hist.inserted = 2

\* ------------------------------------------------ writes under a held sha
Writing(p) == proc[p].pc \in {"write", "userWrite", "updIndex"}

\* The path and the sha of the write handler p is about to send.
Target(p) ==
    IF proc[p].pc = "updIndex" THEN [path |-> IndexPath, sha |-> proc[p].indexSha]
    ELSE [path |-> proc[p].path, sha |-> proc[p].dataSha]

Stale(t) == t.sha # NullSha /\ (~store[t.path].present \/ store[t.path].sha # t.sha)

CommunityDoc == store[CommunityPath("gaming")].doc

Contains(community, change) ==
    /\ change.bannerUrl # Undefined => community.bannerUrl = change.bannerUrl
    /\ change.iconUrl # Undefined => community.iconUrl = change.iconUrl
    /\ change.description # Undefined => community.description = change.description

\* Two updates by different handlers that read the same revision of the document.
Raced(a, b) == a.p # b.p /\ a.base = b.base

C3_CompareAndSwap ==
    [][\A p \in Procs :
          (Writing(p) /\ proc'[p] # proc[p]) =>
              /\ Stale(Target(p)) => store' = store /\ proc'[p].status = 500
              /\ store'[Target(p).path] # store[Target(p).path] =>
                     \A a \in hist.applied :
                         ~(a[1] = Target(p).path /\ a[2] = Target(p).sha)]_vars

C3_Witness ==
    \E r \in hist.rejected :
        /\ r.sha # NullSha
        /\ \E a \in hist.applied : a[1] = r.path /\ a[2] = r.sha

EmptyValid(index) ==
    index.users = EmptyMap /\ index.communities = EmptyMap /\ index.posts = EmptyMap

\* Load j started after load i was answered, and nobody but load j wrote
\* index.json between the two answers.
Successive(i, j) ==
    /\ i < j
    /\ hist.loads[j].startedAt >= i
    /\ hist.loads[j].sha - hist.loads[j].own = hist.loads[i].sha

\* C5: a load that repaired a missing index.json answers an index whose three
\* maps are empty, and a load that follows an answered load with no write in
\* between answers the same index and does not fail.
C5_RepeatedLoad ==
    /\ \A i \in 1..Len(hist.loads) :
          hist.loads[i].status = 200 /\ hist.loads[i].own = 1 =>
              EmptyValid(hist.loads[i].content)
    /\ \A i, j \in 1..Len(hist.loads) :
          Successive(i, j) /\ hist.loads[i].status = 200 =>
              /\ hist.loads[j].status = 200
              /\ hist.loads[j].content = hist.loads[i].content

C5_Witness ==
    \E i, j \in 1..Len(hist.loads) :
        /\ Successive(i, j)
        /\ hist.loads[i].status = 200 /\ hist.loads[i].own = 1
        /\ hist.loads[j].status = 200
        /\ now > hist.loads[i].content.lastUpdated

\* C6: the sha getIndex returns after a repair is the sha of the index.json it
\* saved, and a register whose getIndex repaired the index, with no write of
\* index.json in between, is answered 201 and leaves the user in the index.
C6_RepairReturnsSavedSha ==
    /\ \A p \in Procs :
          proc[p].pc = "afterIndex" /\ proc[p].healSha # NullSha =>
              proc[p].indexSha = proc[p].healSha
    /\ \A r \in hist.registers : r.healed /\ r.clean => r.status = 201 /\ r.listed

\* -------------------------------------------------------------- retention
\* C7: every post of a retention batch ends with its file deleted, and every
\* file the job deleted belonged to a post older than retentionDays that had no
\* comment when the file was deleted.
C7_DeletesOldEmptyOnly ==
    /\ \A s \in hist.swept : ~s.stored
    /\ \A d \in hist.deleted : d.comments = 0 /\ d.age > d.retentionDays

\* C8: a vote answered after the retention job deleted the post's file is
\* answered 404, and the deleted file is never stored again.
C8_LateVoteNotFound ==
    /\ \A v \in hist.lateVotes : v.status = 404
    /\ \A d \in hist.deleted : ~store[PostPath(d.post)].present

\* ------------------------------------------------------------ vote ledger
\* Handler p has applied its vote to the post it read and that post is still
\* the one stored: what it holds is the outcome of its vote on the stored post.
VoteApplied(p) ==
    /\ proc[p].op = "vote" /\ proc[p].pc = "write"
    /\ ~Stale(Target(p))

\* The post handler p voted on, as stored.
VotedPost(p) == store[proc[p].path].doc

VoteOf(post, username) == IF username \in DOMAIN post.voters THEN post.voters[username] ELSE 0

Counts(post) == <<post.upvotes, post.downvotes, post.score>>

Minus(n, flag) == IF flag THEN n - 1 ELSE n
Plus(n, flag) == IF flag THEN n + 1 ELSE n

ClicksOn(postId) == SelectSeq(hist.clicks, LAMBDA c : c.post = postId)

\* Every click on the post was answered, and answered 200.
Settled(clicks) == \A k \in 1..Len(clicks) : clicks[k].status = 200

\* alice's click on the down button of a component that shows no vote of hers.
FirstDown(c) == c.user = "alice" /\ c.vote = -1 /\ c.userVote = 0

\* alice's click on the down button of the component that took her -1.
SecondDown(c) == c.user = "alice" /\ c.vote = -1 /\ c.userVote = -1

\* C12 as stated: alice's post starts at 1/0/1, is at 0/1/-1 after her -1, and
\* is back at 1/0/1 after her second -1, which the toggle sends as 0.
C12_RetractRestoresUpvote ==
    \A i \in StoredPosts :
        LET c == ClicksOn(i) IN
        StoredPost(i).author = "alice" /\ Settled(c) =>
            /\ c = << >> => Counts(StoredPost(i)) = <<1, 0, 1>>
            /\ Len(c) = 1 /\ FirstDown(c[1]) => Counts(StoredPost(i)) = <<0, 1, -1>>
            /\ Len(c) = 2 /\ FirstDown(c[1]) /\ SecondDown(c[2]) =>
                  c[2].sent = 0 /\ Counts(StoredPost(i)) = <<1, 0, 1>>

\* C12 as amended: alice's post starts at 1/0/1, is at 0/1/-1 after her -1, and
\* is at 0/0/0 after her second -1, which the toggle sends as 0: the upvote
\* her post was created with is not restored.
C12_RetractLeavesZero ==
    \A i \in StoredPosts :
        LET c == ClicksOn(i) IN
        StoredPost(i).author = "alice" /\ Settled(c) =>
            /\ c = << >> => Counts(StoredPost(i)) = <<1, 0, 1>>
            /\ Len(c) = 1 /\ FirstDown(c[1]) =>
                  c[1].sent = -1 /\ Counts(StoredPost(i)) = <<0, 1, -1>>
            /\ Len(c) = 2 /\ FirstDown(c[1]) /\ SecondDown(c[2]) =>
                  c[2].sent = 0 /\ Counts(StoredPost(i)) = <<0, 0, 0>>

\* Post 2, created by alice's request, after her two clicks on the down button.
C12_Witness ==
    LET c == ClicksOn(2) IN
    /\ 2 \in StoredPosts /\ StoredPost(2).author = "alice"
    /\ Len(c) = 2 /\ Settled(c) /\ FirstDown(c[1]) /\ SecondDown(c[2])
    /\ Counts(StoredPost(2)) = <<0, 0, 0>>
    /\ VoteOf(StoredPost(2), "alice") = 0

\* -------------------------------------------------------- dual-path reads
\* C14: the document of the direct path is the one used exactly when a
\* parseable, non-empty file was stored there; the index fallback runs only
\* when the direct path had no file or one that does not parse; and 404 is
\* answered only when the direct fetch failed and the fallback found no index
\* entry or no file.
C14_DirectThenFallback ==
    /\ \A r \in hist.resolved :
          /\ r.used = "direct" <=> r.directKind = "json"
          /\ r.fallback # "none" => r.directKind \in {"missing", "corrupt"}
          /\ r.status = 404 =>
                r.directKind # "json" /\ r.fallback \in {"noEntry", "missing"}
    /\ \A p \in Procs :
          proc[p].op \in ResolveOps /\ proc[p].pc = "indexed" =>
              proc[p].directKind \in {"missing", "corrupt"}

\* One read was answered from the direct path, one from the file the index
\* names after the direct path gave a file that does not parse.
C14_Witness ==
    /\ \E r \in hist.resolved : r.used = "direct" /\ r.status = 200
    /\ \E r \in hist.resolved :
          r.directKind = "corrupt" /\ r.used = "index" /\ r.fallback = "empty"

\* C15: a get user, get community or get post answered from the direct path
\* has written nothing, index.json included, whatever is stored.
C15_DirectHitWritesNothing ==
    \A r \in hist.resolved : r.used = "direct" => ~r.wrote

\* C16: for a post that is stored at its direct path and listed in the index,
\* the fetch at the direct path and the fetch at the path the index gives
\* return the same content.
DirectFetch(postId) == getFileFromGitHub(store, PostPath(postId))

IndexFetch(postId) ==
    LET index == getFileFromGitHub(store, IndexPath).content IN
    IF index = EmptyDoc \/ postId \notin DOMAIN index.posts THEN Null
    ELSE getFileFromGitHub(store, index.posts[postId].file)

IndexedPosts ==
    LET index == getFileFromGitHub(store, IndexPath).content IN
    IF index = EmptyDoc THEN {} ELSE DOMAIN index.posts

C16_SameDocumentBothWays ==
    \A i \in StoredPosts \cap IndexedPosts :
        /\ directHit(DirectFetch(i))
        /\ IndexFetch(i).found
        /\ IndexFetch(i).content = DirectFetch(i).content

\* Post 2, created by a request and voted on since, is stored and listed.
C16_Witness ==
    /\ 2 \in StoredPosts \cap IndexedPosts
    /\ store[PostPath(2)].sha > 1
    /\ IndexFetch(2).content = StoredPost(2)

\* ---------------------------------------------------------------- register
Answered(username, status) == {r \in hist.signups : r.user = username /\ r.status = status}

\* The index entry of a listed user names the stored document of that user.
EntryNamesDocument(username) ==
    LET ref == store[IndexPath].doc.users[username]
        blob == store[ref.file]
    IN  /\ ref.file = UserPath(username)
        /\ blob.present /\ blob.kind = "json"
        /\ blob.doc.username = username
        /\ blob.doc.createdAt = ref.createdAt

\* C17: a register for a username the index lists is answered 400 (exists);
\* a user document, once stored, is never written by another register; of the
\* registers for one username at most one is answered 201; and the index
\* entry of a username names the document that was stored.
C17_RegisterOnce ==
    /\ \A r \in hist.signups : r.existed => r.status = 400
    /\ \A username \in Users :
          /\ store[UserPath(username)].sha <= 1
          /\ Cardinality(Answered(username, 201)) <= 1
          /\ Listed(store, username) => EntryNamesDocument(username)

\* bob registered, a later register for bob was answered 400, and a register
\* that met bob's stored document without an index entry was turned away.
C17_Witness ==
    /\ Answered("bob", 201) # {}
    /\ \E r \in Answered("bob", 400) : r.existed
    /\ \E r \in Answered("bob", 500) : ~r.existed
    /\ EntryNamesDocument("bob")

\* C18: a creation (createUser, createCommunity, createPost) whose entity write
\* succeeded and whose index update failed is answered as a failure, and its
\* entity resolves by its direct path while the stored index does not list it.
C18_OrphanReportedAsFailure ==
    \A o \in hist.orphans : o.status >= 400 /\ o.direct /\ ~o.listed

C18_Witness ==
    \E o \in hist.orphans : o.op = "createPost" /\ o.status = 500 /\ o.direct /\ ~o.listed

\* The community documents a repository holds.
CommunityDocs(st) ==
    {st[CommunityPath(c)].doc :
        c \in {n \in Communities : directHit(getFileFromGitHub(st, CommunityPath(n)))}}

Consistent(doc) ==
    /\ doc.memberCount = Len(doc.members)
    /\ Cardinality(Range(doc.members)) = Len(doc.members)
    /\ doc.creator \in Range(doc.members)

\* A stored community document stays stored and keeps every member it has.
Grows ==
    \A c \in Communities :
        directHit(getFileFromGitHub(store, CommunityPath(c)))
            => /\ directHit(getFileFromGitHub(store', CommunityPath(c)))
               /\ Range(store[CommunityPath(c)].doc.members)
                      \subseteq Range(store'[CommunityPath(c)].doc.members)

\* C19: in every stored community document memberCount is the number of
\* members, no member is listed twice and the creator is a member; no step
\* removes a member; a join by a user who is a member already writes nothing
\* and returns the memberCount the stored document has.
C19_MembersConsistent ==
    /\ [](/\ \A doc \in CommunityDocs(store) : Consistent(doc)
          /\ \A j \in hist.joins : j.member => ~j.wrote /\ j.returned = j.stored)
    /\ [][Grows]_vars

C19_Witness ==
    \E j \in hist.joins : j.member /\ ~j.wrote /\ j.user = "bob" /\ j.returned = 2

\* The posts one run of the cleanup job deleted.
DeletedBy(run) == {d.post : d \in {x \in hist.deleted : x.run = run}}

\* The posts a run of the cleanup job would still pick: stored, uncommented.
Candidates ==
    {i \in 1..MaxBatchPosts :
        /\ directHit(getFileFromGitHub(store, PostPath(i)))
        /\ store[PostPath(i)].doc.comments = << >>}

\* C20: one run of the cleanup job deletes at most 5 posts, whatever the number
\* of posts it found expired and uncommented.
C20_BatchOfFive ==
    \A run \in 1..hist.started : Cardinality(DeletedBy(run)) <= CleanupBatch

C20_Witness ==
    \E p \in Procs :
        /\ proc[p].op = "cleanup" /\ proc[p].pc = "done"
        /\ hist.started = 1
        /\ Cardinality(DeletedBy(1)) = CleanupBatch
        /\ Candidates # {}

\* A step taken by the cleanup job that handler p runs.
JobStep(p) == proc[p].op = "cleanup" /\ proc'[p] # proc[p]

\* What a step of the job on p may change in the repository: the file of a
\* post of its batch, which goes, and the posts map (and the stamp) of the index.
FrameKept(p) ==
    \A path \in DOMAIN store :
        store'[path] # store[path] =>
            \/ /\ path[1] = "posts"
               /\ path[2] \in Range(proc[p].postsToDelete)
               /\ store'[path] = AbsentBlob
            \/ /\ path = IndexPath
               /\ store'[path].kind = "json" /\ store[path].kind = "json"
               /\ store'[path].doc.users = store[path].doc.users
               /\ store'[path].doc.communities = store[path].doc.communities

C22_NoDoubleDelete ==
    /\ \A d \in hist.deleted :
          /\ ~store[PostPath(d.post)].present
          /\ d.comments = 0 /\ d.age > d.retentionDays
          /\ \A e \in hist.deleted : e.post = d.post => e = d
    /\ \A i \in 1..MaxBatchPosts :
          ~store[PostPath(i)].present => i \in {d.post : d \in hist.deleted}
    /\ \A s \in hist.swept : ~s.stored
    /\ \A p \in Procs : proc[p].op = "cleanup" => proc[p].status = NoResponse

C22_Witness ==
    /\ \A p \in Procs : proc[p].op = "cleanup" /\ proc[p].pc = "done"
    /\ \E s \in hist.swept, t \in hist.swept : s.post = t.post /\ s.run # t.run
    /\ hist.deleted # {}

\* C23: a candidate whose delete failed is skipped: the run that left its file
\* in the repository does not take its entry out of the index.
C23_FailedCandidateSkipped ==
    \A s \in hist.swept : \A w \in hist.sweeps :
        s.stored /\ w.run = s.run => s.post \notin w.unlisted

\* C24: once a run of the cleanup job has ended, the index has no entry for a
\* post whose file that run deleted.
C24_DeletedPostUnlisted ==
    \A w \in hist.sweeps : \A d \in hist.deleted :
        d.run = w.run => ~Indexed(store, "posts", d.post)

\* C25: the index update of the cleanup job takes out only the entries of
\* posts the job deleted, and leaves every other entry of the stored index as
\* it was.
C25_IndexUpdateOnlyUnlistsDeleted ==
    \A w \in hist.sweeps : w.kept /\ w.unlisted \subseteq DeletedBy(w.run)

C27_DeletePermission ==
    \A m \in hist.removals :
        /\ ~m.permitted => m.status = 403 /\ m.after = m.before
        /\ m.status = 403 => ~m.permitted
        /\ m.status # 200 => m.after = m.before
        /\ m.status = 200 =>
              /\ m.permitted
              /\ m.before # EmptyDoc
              /\ m.after = tombstone(m.before)
              /\ m.listed

C27_Witness ==
    /\ \E m \in hist.removals : m.status = 403 /\ m.actor = "bob" /\ m.post = 1
    /\ \E m \in hist.removals :
          /\ m.status = 200 /\ m.actor = "alice" /\ m.post = 2
          /\ m.after.comments # << >> /\ m.after.author = "[deleted]"
          /\ m.after.voters = m.before.voters

\* A create post answered 201 by handler p.
Posted(p) == proc[p].op = "createPost" /\ proc[p].pc = "done" /\ proc[p].status = 201

\* The step in which handler p answers a create post with 404.
RefusesPost(p) ==
    proc[p].op = "createPost" /\ proc[p].pc = "afterIndex" /\ proc'[p].status = 404

Unparseable == {path \in DOMAIN store : store[path].present /\ store[path].kind # "json"}

\* C29: the read of a file whose payload is empty or is not JSON gives the
\* empty document together with the sha the file has, and a save sent with
\* that sha is accepted: the repair a handler is about to send for such an
\* index.json replaces it.
C29_UnparseableReadKeepsSha ==
    /\ \A path \in Unparseable :
          LET result == getFileFromGitHub(store, path) IN
          /\ result.found /\ result.content = EmptyDoc
          /\ result.sha = store[path].sha /\ result.sha # NullSha
          /\ saveFileToGitHub(store, path, InitialIndex(now), result.sha).ok
    /\ \A p \in Procs :
          proc[p].pc = "healIndex" /\ IndexPath \in Unparseable =>
              LET r == saveFileToGitHub(store, IndexPath, proc[p].index, proc[p].indexSha) IN
              r.ok /\ r.store[IndexPath].kind = "json"

C29_Witness ==
    /\ store[IndexPath].kind = "corrupt"
    /\ \E p \in Procs : proc[p].pc = "healIndex" /\ proc[p].indexSha = store[IndexPath].sha

\* C30: once getIndex has returned an index document to a handler, the stored
\* index.json has the three maps users, communities and posts.
C30_LoadPersistsMaps ==
    \A p \in Procs :
        proc[p].pc = "afterIndex" =>
            /\ store[IndexPath].present /\ store[IndexPath].kind = "json"
            /\ IndexMaps \subseteq DOMAIN store[IndexPath].doc

\* The entries of the maps an index document has.
IndexEntries(doc) ==
    UNION {{<<m, k, doc[m][k]>> : k \in DOMAIN doc[m]} : m \in IndexMaps \cap DOMAIN doc}
StoredEntries(st) ==
    IF st[IndexPath].present /\ st[IndexPath].kind = "json"
    THEN IndexEntries(st[IndexPath].doc) ELSE {}

\* C31: the repair of the index loses no entry of a map the stored index.json
\* has: no step removes or changes such an entry in the store, and the index
\* getIndex returns to a handler holds every one of them.
C31_RepairKeepsEntries ==
    [][/\ StoredEntries(store) \subseteq StoredEntries(store')
       /\ \A p \in Procs :
             proc[p].pc \in {"getIndex", "healIndex"} /\ proc'[p].pc = "afterIndex" =>
                 StoredEntries(store) \subseteq IndexEntries(proc'[p].index)]_vars

\* A load has returned the patched index, with the entry of alice, while the
\* stored index.json lacks a map.
C31_Witness ==
    \E p \in Procs :
        /\ proc[p].pc = "afterIndex"
        /\ ~(IndexMaps \subseteq DOMAIN store[IndexPath].doc)
        /\ "alice" \in DOMAIN proc[p].index.users
        /\ StoredEntries(store) # {}
        /\ StoredEntries(store) \subseteq IndexEntries(proc[p].index)

\* The step in which handler p answers a comment request with status.
CommentAnswered(p, status) ==
    /\ proc[p].op = "comment" /\ proc[p].pc # "done"
    /\ proc'[p].pc = "done" /\ proc'[p].status = status

RECURSIVE Nodes(_)
Nodes(comments) ==
    IF comments = << >> THEN {}
    ELSE {Head(comments)} \cup Nodes(Head(comments).replies) \cup Nodes(Tail(comments))

\* The forest without the node called id.
RECURSIVE Without(_, _)
Without(comments, id) ==
    IF comments = << >> THEN << >>
    ELSE IF Head(comments).id = id THEN Without(Tail(comments), id)
    ELSE <<[Head(comments) EXCEPT !.replies = Without(@, id)]>> \o Without(Tail(comments), id)

\* Every list of the forest has its nodes in the order their ids were drawn.
RECURSIVE Ordered(_)
Ordered(comments) ==
    /\ \A j, k \in 1..Len(comments) : j < k => comments[j].id < comments[k].id
    /\ \A j \in 1..Len(comments) : Ordered(comments[j].replies)

\* Handler p holds the post with its comment inserted, and the stored post is
\* still the one it read.
Inserting(p) ==
    /\ proc[p].op = "comment" /\ proc[p].pc = "write"
    /\ store[proc[p].path].present /\ store[proc[p].path].sha = proc[p].dataSha

C34_CountersMatchVoters ==
    \A i \in StoredPosts :
        LET post == StoredPost(i) IN
        /\ post.upvotes = Cardinality({u \in DOMAIN post.voters : post.voters[u] = 1})
        /\ post.downvotes = Cardinality({u \in DOMAIN post.voters : post.voters[u] = -1})

\* C35: every value stored in the voters map of a post is -1, 0 or 1.
C35_VoterValues ==
    \A i \in StoredPosts :
        \A u \in DOMAIN StoredPost(i).voters : StoredPost(i).voters[u] \in {-1, 0, 1}

\* C36: every entry of the stored index names the file of the direct path of
\* its key: users/<username>.json, communities/<name>.json, posts/<postId>.json.
C36_CanonicalFiles ==
    store[IndexPath].present /\ store[IndexPath].kind = "json" =>
        LET index == store[IndexPath].doc IN
        /\ "users" \in DOMAIN index =>
              \A username \in DOMAIN index.users :
                  index.users[username].file = UserPath(username)
        /\ "communities" \in DOMAIN index =>
              \A name \in DOMAIN index.communities :
                  index.communities[name].file = CommunityPath(name)
        /\ "posts" \in DOMAIN index =>
              \A postId \in DOMAIN index.posts :
                  index.posts[postId].file = PostPath(postId)

\* bob registered, r/gaming was created and a post was created in it.
C36_Witness ==
    LET index == store[IndexPath].doc IN
    /\ "bob" \in DOMAIN index.users
    /\ "gaming" \in DOMAIN index.communities
    /\ index.posts # EmptyMap

\* The posts list of the stored document of community name holds postId.
InCommunity(name, postId) ==
    /\ store[CommunityPath(name)].present /\ store[CommunityPath(name)].kind = "json"
    /\ \E j \in 1..Len(store[CommunityPath(name)].doc.posts) :
          store[CommunityPath(name)].doc.posts[j] = postId

\* The posts list of the stored document of user username holds postId.
InAuthor(username, postId) ==
    /\ store[UserPath(username)].present /\ store[UserPath(username)].kind = "json"
    /\ \E j \in 1..Len(store[UserPath(username)].doc.posts) :
          store[UserPath(username)].doc.posts[j] = postId

\* C37: create post writes the post, then the posts list of the community,
\* then the index entry, then the posts list of the author: a handler past a
\* write finds the earlier ones stored and the later ones not yet; whenever
\* the stored index has an entry for a post, the document of the entry's
\* community lists the post.
C37_CreatePostOrder ==
    /\ \A postId \in DOMAIN store[IndexPath].doc.posts :
          InCommunity(store[IndexPath].doc.posts[postId].community, postId)
    /\ \A p \in Procs :
          proc[p].op = "createPost" =>
              LET postId == proc[p].post
                  listed == postId \in DOMAIN store[IndexPath].doc.posts
              IN  /\ proc[p].pc \in {"communityRead", "communityWrite", "updIndex",
                                     "userRead", "userWrite"} =>
                        postId \in StoredPosts
                  /\ proc[p].pc \in {"write", "communityRead", "communityWrite"} =>
                        ~InCommunity(proc[p].community, postId) /\ ~listed
                  /\ proc[p].pc \in {"updIndex", "userRead", "userWrite"} =>
                        InCommunity(proc[p].community, postId)
                  /\ proc[p].pc = "updIndex" => ~listed
                  /\ proc[p].pc \in {"userRead", "userWrite"} => listed
                  /\ proc[p].pc \in {"write", "communityRead", "communityWrite", "updIndex",
                                     "userRead", "userWrite"} =>
                        ~InAuthor(proc[p].user, postId)

\* One create post went through to the index; another was answered 500 after
\* it had stored its post, which the index does not list.
C37_Witness ==
    /\ DOMAIN store[IndexPath].doc.posts # {}
    /\ \E i \in StoredPosts : i \notin DOMAIN store[IndexPath].doc.posts
    /\ \E p \in Procs :
          proc[p].op = "createPost" /\ proc[p].pc = "done" /\ proc[p].status = 500

\* C38: while no join is in progress, the memberCount of every community
\* entry of the stored index is the memberCount of the community's document.
C38_CachedMemberCount ==
    (\A p \in Procs : proc[p].op = "join" => proc[p].pc \in {"idle", "done"}) =>
        \A name \in DOMAIN store[IndexPath].doc.communities :
            store[CommunityPath(name)].present /\ store[CommunityPath(name)].kind = "json" =>
                store[IndexPath].doc.communities[name].memberCount
                    = store[CommunityPath(name)].doc.memberCount

\* The step in which handler p's delete of its community is answered 200.
CommunityDropped(p) ==
    /\ proc[p].op = "deleteCommunity" /\ proc[p].pc = "afterIndex"
    /\ proc'[p].pc = "done" /\ proc'[p].status = 200

RECURSIVE WellParented(_, _)
WellParented(comments, parent) ==
    \A j \in 1..Len(comments) :
        /\ comments[j].parentId = parent
        /\ WellParented(comments[j].replies, comments[j].id)

\* C40: in every stored post the nodes of the top-level list have parentId
\* null, and every other node has the id of the node whose replies list holds
\* it (which is never null).
C40_ParentIds ==
    \A i \in StoredPosts :
        /\ WellParented(StoredPost(i).comments, NullId)
        /\ \A n \in Nodes(StoredPost(i).comments) : n.id # NullId

====
